---- MODULE Spec2Model ----
(***************************************************************************)
(* Model of the Travel Buddy server's rule-based intent matcher            *)
(* (src/src/utils/intents.js).  Strings are sequences of characters; a     *)
(* character is a one-token name.  JavaScript values are tagged records.   *)
(***************************************************************************)
EXTENDS Naturals, Sequences, FiniteSets, TLC

(***************************************************************************)
(* Characters                                                              *)
(***************************************************************************)
LowerSeq == << "a","b","c","d","e","f","g","h","i","j","k","l","m",
               "n","o","p","q","r","s","t","u","v","w","x","y","z" >>
UpperSeq == << "A","B","C","D","E","F","G","H","I","J","K","L","M",
               "N","O","P","Q","R","S","T","U","V","W","X","Y","Z" >>
LowerAlpha == { LowerSeq[i] : i \in DOMAIN LowerSeq }
UpperAlpha == { UpperSeq[i] : i \in DOMAIN UpperSeq }
Digits == { "0","1","2","3","4","5","6","7","8","9" }

\* Precomposed accented letters (U+00E9, U+00C9, U+00F4, U+00D4), the
\* combining marks U+0301 and U+0302, and the ligature U+0153, which has no
\* canonical decomposition.
eAcute == "e_acute"
EAcute == "E_acute"
oCirc == "o_circ"
OCirc == "O_circ"
CombAcute == "comb_acute"
CombCirc == "comb_circ"
oeLig == "oe_lig"
TAB == "TAB"
NL == "LF"
CR == "CR"
QUOTE == "QUOTE"

\* Code points U+0300..U+036F
CombiningMarks == { CombAcute, CombCirc }
\* What String.prototype.trim removes
WhiteSpace == { " ", TAB, NL, CR }

\* String.prototype.toLowerCase, one character
LowerChar(c) ==
    IF c \in UpperAlpha
    THEN LowerSeq[CHOOSE i \in DOMAIN UpperSeq : UpperSeq[i] = c]
    ELSE IF c = EAcute THEN eAcute
    ELSE IF c = OCirc THEN oCirc
    ELSE c

\* Canonical decomposition (NFD) of one character
NFDChar(c) ==
    IF c = eAcute THEN << "e", CombAcute >>
    ELSE IF c = EAcute THEN << "E", CombAcute >>
    ELSE IF c = oCirc THEN << "o", CombCirc >>
    ELSE IF c = OCirc THEN << "O", CombCirc >>
    ELSE << c >>

\* The regular expression class \w (ASCII only)
IsWordChar(c) == c \in LowerAlpha \cup UpperAlpha \cup Digits \cup { "_" }

(***************************************************************************)
(* String primitives                                                       *)
(***************************************************************************)
RECURSIVE toLowerCase(_)
toLowerCase(s) ==
    IF s = << >> THEN << >>
    ELSE << LowerChar(Head(s)) >> \o toLowerCase(Tail(s))

RECURSIVE TrimStart(_)
TrimStart(s) ==
    IF s # << >> /\ Head(s) \in WhiteSpace THEN TrimStart(Tail(s)) ELSE s

RECURSIVE TrimEnd(_)
TrimEnd(s) ==
    IF s # << >> /\ s[Len(s)] \in WhiteSpace
    THEN TrimEnd(SubSeq(s, 1, Len(s) - 1)) ELSE s

trim(s) == TrimEnd(TrimStart(s))

RECURSIVE NFD(_)
NFD(s) == IF s = << >> THEN << >> ELSE NFDChar(Head(s)) \o NFD(Tail(s))

\* s.replace(/[\u0300-\u036f]/g, "")
RemoveMarks(s) == SelectSeq(s, LAMBDA c : c \notin CombiningMarks)

\* s.includes(k)
includes(s, k) ==
    \E i \in 0 .. (Len(s) - Len(k)) : SubSeq(s, i + 1, i + Len(k)) = k

\* s.startsWith(k)
startsWith(s, k) == Len(k) <= Len(s) /\ SubSeq(s, 1, Len(k)) = k

(***************************************************************************)
(* JavaScript values                                                       *)
(***************************************************************************)
Undefined == [t |-> "undefined"]
Null == [t |-> "null"]
Str(s) == [t |-> "string", s |-> s]
Num(n) == [t |-> "number", n |-> n]
Arr(a) == [t |-> "array", a |-> a]
Obj(f) == [t |-> "object", f |-> f]
\* The outcome of a call that raised an exception
Throw(e) == [t |-> "throw", e |-> e]

\* ToBoolean
Truthy(v) ==
    CASE v.t = "undefined" -> FALSE
      [] v.t = "null" -> FALSE
      [] v.t = "string" -> v.s # << >>
      [] v.t = "number" -> v.n # 0
      [] OTHER -> TRUE

\* a || b
Or(a, b) == IF Truthy(a) THEN a ELSE b

DigitSeq == << "0","1","2","3","4","5","6","7","8","9" >>

RECURSIVE Join(_, _)
Join(strs, sep) ==
    IF strs = << >> THEN << >>
    ELSE IF Len(strs) = 1 THEN strs[1]
    ELSE strs[1] \o sep \o Join(Tail(strs), sep)

\* String(v)
RECURSIVE String(_)
String(v) ==
    CASE v.t = "string" -> v.s
      [] v.t = "undefined" -> << "u","n","d","e","f","i","n","e","d" >>
      [] v.t = "null" -> << "n","u","l","l" >>
      [] v.t = "number" -> << DigitSeq[v.n + 1] >>
      [] v.t = "array" ->
           Join([i \in DOMAIN v.a |->
                    IF v.a[i].t \in {"undefined", "null"} THEN << >>
                    ELSE String(v.a[i])], << "," >>)
      [] OTHER -> << "[","o","b","j","e","c","t"," ","O","b","j","e","c","t","]" >>

\* v.name for a value that is neither null nor undefined
Get(v, name) ==
    IF v.t = "object" /\ name \in DOMAIN v.f THEN v.f[name] ELSE Undefined

\* v?.name
GetOpt(v, name) ==
    IF v.t \in {"undefined", "null"} THEN Undefined ELSE Get(v, name)

(***************************************************************************)
(* Normalisation                                                           *)
(***************************************************************************)
stripAccents(s) == RemoveMarks(NFD(String(Or(s, Str(<< >>)))))

norm(s) == stripAccents(Str(trim(toLowerCase(String(Or(s, Str(<< >>)))))))

FR == << "f","r" >>
EN == << "e","n" >>

\* Mutant: only the exact code "fr" is French
normalizeLang_ExactOnly(lang) ==
    LET s == trim(toLowerCase(String(Or(lang, Str(<< >>)))))
    IN  IF s = FR THEN FR ELSE EN

normalizeLang(lang) ==
    LET s == trim(toLowerCase(String(Or(lang, Str(<< >>)))))
    IN  IF s = FR \/ startsWith(s, FR) THEN FR ELSE EN

\* normalizeLang of chat.routes.js
routeNormalizeLang(lang) ==
    LET s == trim(toLowerCase(String(Or(lang, Str(<< >>)))))
    IN  IF s = FR \/ startsWith(s, FR) THEN FR ELSE EN

\* normalizeLang of routes/booking.routes.js
bookingNormalizeLang(lang) ==
    LET s == trim(toLowerCase(String(Or(lang, Str(<< >>)))))
    IN  IF s = FR \/ startsWith(s, FR) THEN FR ELSE EN

(***************************************************************************)
(* Cross-language rewrite                                                  *)
(***************************************************************************)
hotelSignals ==
    << << "r","e","s","e","r","v","e","r"," ","u","n"," ","h","o","t","e","l" >>,
       << "r","e","s","e","r","v","e","r"," ","h","o","t","e","l" >>,
       << "r","e","s","e","r","v","a","t","i","o","n"," ","h","o","t","e","l" >>,
       << "h","o","t","e","l" >>,
       << "h",oCirc,"t","e","l" >>,
       << "h","e","b","e","r","g","e","m","e","n","t" >>,
       << "h",eAcute,"b","e","r","g","e","m","e","n","t" >>,
       << "l","o","g","e","m","e","n","t" >> >>

taxiSignals ==
    << << "r","e","s","e","r","v","e","r"," ","u","n"," ","t","a","x","i" >>,
       << "r","e","s","e","r","v","e","r"," ","t","a","x","i" >>,
       << "r","e","s","e","r","v","a","t","i","o","n"," ","t","a","x","i" >>,
       << "t","a","x","i" >>,
       << "c","h","a","u","f","f","e","u","r" >>,
       << "t","r","a","n","s","p","o","r","t" >>,
       << "v","o","i","t","u","r","e" >> >>

\* The operands of the includes() tests of hasReserveVerb, as written
reserveVerbs ==
    << << "r","e","s","e","r","v","e","r" >>,
       << "r",eAcute,"s","e","r","v","e","r" >>,
       << "r","e","s","e","r","v","a","t","i","o","n" >>,
       << "r",eAcute,"s","e","r","v","a","t","i","o","n" >>,
       << "b","o","o","k" >>,
       << "b","o","o","k","i","n","g" >> >>

BOOK_HOTEL == << "b","o","o","k"," ","h","o","t","e","l" >>
BOOK_TAXI == << "b","o","o","k"," ","t","a","x","i" >>

hasReserveVerb(m) == \E i \in DOMAIN reserveVerbs : includes(m, reserveVerbs[i])
mentionsHotel(m) ==
    \E i \in DOMAIN hotelSignals : includes(m, norm(Str(hotelSignals[i])))
mentionsTaxi(m) ==
    \E i \in DOMAIN taxiSignals : includes(m, norm(Str(taxiSignals[i])))

\* The comparisons m === "hotel" || m === "un hotel" || ... , as written
bareHotel == { << "h","o","t","e","l" >>, << "u","n"," ","h","o","t","e","l" >>, << "h",oCirc,"t","e","l" >>, << "u","n"," ","h",oCirc,"t","e","l" >> }
bareTaxi == { << "t","a","x","i" >>, << "u","n"," ","t","a","x","i" >> }

\* Mutant: the taxi test comes before the hotel test
mapFrench_TaxiFirst(message) ==
    LET m == norm(message)
    IN  IF hasReserveVerb(m) /\ mentionsTaxi(m) THEN Str(BOOK_TAXI)
        ELSE IF hasReserveVerb(m) /\ mentionsHotel(m) THEN Str(BOOK_HOTEL)
        ELSE IF m \in bareHotel THEN Str(BOOK_HOTEL)
        ELSE IF m \in bareTaxi THEN Str(BOOK_TAXI)
        ELSE message

\* Mutant: the bare-noun comparisons are missing
mapFrench_NoBareNoun(message) ==
    LET m == norm(message)
    IN  IF hasReserveVerb(m) /\ mentionsHotel(m) THEN Str(BOOK_HOTEL)
        ELSE IF hasReserveVerb(m) /\ mentionsTaxi(m) THEN Str(BOOK_TAXI)
        ELSE message

\* Mutant: the hotel rewrite gives way when a taxi is mentioned too
mapFrench_BothMeansTaxi(message) ==
    LET m == norm(message)
    IN  IF hasReserveVerb(m) /\ mentionsHotel(m) /\ ~mentionsTaxi(m) THEN Str(BOOK_HOTEL)
        ELSE IF hasReserveVerb(m) /\ mentionsTaxi(m) THEN Str(BOOK_TAXI)
        ELSE IF m \in bareHotel THEN Str(BOOK_HOTEL)
        ELSE IF m \in bareTaxi THEN Str(BOOK_TAXI)
        ELSE message

mapFrenchToEnglishForIntentMatching(message) ==
    LET m == norm(message)
    IN  IF hasReserveVerb(m) /\ mentionsHotel(m) THEN Str(BOOK_HOTEL)
        ELSE IF hasReserveVerb(m) /\ mentionsTaxi(m) THEN Str(BOOK_TAXI)
        ELSE IF m \in bareHotel THEN Str(BOOK_HOTEL)
        ELSE IF m \in bareTaxi THEN Str(BOOK_TAXI)
        ELSE message

(***************************************************************************)
(* Rule fields                                                             *)
(***************************************************************************)
\* s.split(sep) for a one-character separator
RECURSIVE SplitFrom(_, _, _)
SplitFrom(s, sep, cur) ==
    IF s = << >> THEN << cur >>
    ELSE IF Head(s) = sep THEN << cur >> \o SplitFrom(Tail(s), sep, << >>)
    ELSE SplitFrom(Tail(s), sep, Append(cur, Head(s)))

split(s, sep) == SplitFrom(s, sep, << >>)

\* Mutant: the keywords column is read before the patterns column
extractPatterns_KeywordsFirst(intentObj) ==
    LET raw == Or(Or(Or(GetOpt(intentObj, "keywords"), GetOpt(intentObj, "patterns")),
                     GetOpt(intentObj, "phrases")), Str(<< >>))
    IN  IF ~Truthy(raw) THEN << >>
        ELSE IF raw.t = "string"
        THEN LET parts == split(raw.s, "|")
                 trimmed == [i \in DOMAIN parts |-> trim(parts[i])]
             IN  SelectSeq(trimmed, LAMBDA x : x # << >>)
        ELSE IF raw.t = "array"
        THEN LET kept == SelectSeq(raw.a, Truthy)
             IN  [i \in DOMAIN kept |-> String(kept[i])]
        ELSE << >>

\* Returns the list of pattern strings of a rule
extractPatterns(intentObj) ==
    LET raw == Or(Or(Or(GetOpt(intentObj, "patterns"), GetOpt(intentObj, "keywords")),
                     GetOpt(intentObj, "phrases")), Str(<< >>))
    IN  IF ~Truthy(raw) THEN << >>
        ELSE IF raw.t = "string"
        THEN LET parts == split(raw.s, "|")
                 trimmed == [i \in DOMAIN parts |-> trim(parts[i])]
             IN  SelectSeq(trimmed, LAMBDA x : x # << >>)
        ELSE IF raw.t = "array"
        THEN LET kept == SelectSeq(raw.a, Truthy)
             IN  [i \in DOMAIN kept |-> String(kept[i])]
        ELSE << >>

\* Mutant: a blank French response is not passed over
pickResponse_BlankFrench(it, lang) ==
    LET L == normalizeLang(lang)
        fr == Or(Or(Or(Get(it, "response_fr"), Get(it, "reponse_fr")), Get(it, "fr")),
                 Str(<< >>))
        en == Or(Or(Or(Or(Get(it, "response_en"), Get(it, "response")), Get(it, "reply")),
                    Get(it, "text")), Str(<< >>))
    IN  IF L = FR /\ Truthy(fr)
        THEN Str(trim(String(fr)))
        ELSE Str(trim(String(Or(en, Str(<< >>)))))

pickResponse(it, lang) ==
    LET L == normalizeLang(lang)
        fr == Or(Or(Or(Get(it, "response_fr"), Get(it, "reponse_fr")), Get(it, "fr")),
                 Str(<< >>))
        en == Or(Or(Or(Or(Get(it, "response_en"), Get(it, "response")), Get(it, "reply")),
                    Get(it, "text")), Str(<< >>))
    IN  IF L = FR /\ Truthy(fr) /\ trim(String(fr)) # << >>
        THEN Str(trim(String(fr)))
        ELSE Str(trim(String(Or(en, Str(<< >>)))))

(***************************************************************************)
(* Whole-phrase matching                                                   *)
(***************************************************************************)
BACKSLASH == "\\"
\* The characters of the class [.*+?^${}()|[\]\\]
RegexSpecials ==
    { ".", "*", "+", "?", "^", "$", "{", "}", "(", ")", "|", "[", "]", BACKSLASH }

\* str.replace(/[.*+?^${}()|[\]\\]/g, "\\$&"): the regular expression source
RECURSIVE escapeRegex(_)
escapeRegex(str) ==
    IF str = << >> THEN << >>
    ELSE (IF Head(str) \in RegexSpecials THEN << BACKSLASH, Head(str) >>
          ELSE << Head(str) >>) \o escapeRegex(Tail(str))

\* The literal characters a regular expression source of escaped and plain
\* characters stands for: a backslash makes the next character literal
RECURSIVE RegexLiterals(_)
RegexLiterals(src) ==
    IF src = << >> THEN << >>
    ELSE IF Head(src) = BACKSLASH /\ Len(src) >= 2
    THEN << src[2] >> \o RegexLiterals(Tail(Tail(src)))
    ELSE << Head(src) >> \o RegexLiterals(Tail(src))

\* Mutant: no word-boundary test, any substring occurrence matches
WordBoundary_Anywhere(s, i) == TRUE

\* The assertion \b at offset i of s (between s[i] and s[i+1])
WordBoundary(s, i) ==
    (i > 0 /\ IsWordChar(s[i])) # (i < Len(s) /\ IsWordChar(s[i + 1]))

\* new RegExp(`\\b${src}\\b`).test(s)
RegexTest(src, s) ==
    LET lit == RegexLiterals(src)
    IN  \E i \in 0 .. (Len(s) - Len(lit)) :
            /\ SubSeq(s, i + 1, i + Len(lit)) = lit
            /\ WordBoundary(s, i)
            /\ WordBoundary(s, i + Len(lit))

matchesWhole(mNorm, patternNorm) ==
    IF patternNorm = << >> THEN FALSE
    ELSE RegexTest(escapeRegex(patternNorm), mNorm)

(***************************************************************************)
(* matchIntent                                                             *)
(***************************************************************************)
\* Mutant: the first matching pattern wins, whatever its length
RECURSIVE ScanPatterns_FirstMatch(_, _, _, _, _, _)
ScanPatterns_FirstMatch(patterns, m, it, intentName, L, best) ==
    IF patterns = << >> THEN best
    ELSE LET k == norm(Str(Head(patterns)))
             next ==
                 IF k # << >> /\ matchesWhole(m, k) /\ best.t = "null"
                 THEN Obj([intent |-> intentName,
                           response |-> pickResponse(it, Str(L)),
                           score |-> Len(k)])
                 ELSE best
         IN  ScanPatterns_FirstMatch(Tail(patterns), m, it, intentName, L, next)

\* Mutant: an equally long later match replaces the best one (>= for >)
RECURSIVE ScanPatterns_LastTie(_, _, _, _, _, _)
ScanPatterns_LastTie(patterns, m, it, intentName, L, best) ==
    IF patterns = << >> THEN best
    ELSE LET k == norm(Str(Head(patterns)))
             next ==
                 IF k # << >> /\ matchesWhole(m, k)
                      /\ (best.t = "null" \/ Len(k) >= best.f.score)
                 THEN Obj([intent |-> intentName,
                           response |-> pickResponse(it, Str(L)),
                           score |-> Len(k)])
                 ELSE best
         IN  ScanPatterns_LastTie(Tail(patterns), m, it, intentName, L, next)

\* The inner loop over the patterns of one rule; best is Null or the best
\* candidate so far
RECURSIVE ScanPatterns(_, _, _, _, _, _)
ScanPatterns(patterns, m, it, intentName, L, best) ==
    IF patterns = << >> THEN best
    ELSE LET k == norm(Str(Head(patterns)))
             score == Len(k)
             next ==
                 IF k # << >> /\ matchesWhole(m, k)
                      /\ (best.t = "null" \/ score > best.f.score)
                 THEN Obj([intent |-> intentName,
                           response |-> pickResponse(it, Str(L)),
                           score |-> score])
                 ELSE best
         IN  ScanPatterns(Tail(patterns), m, it, intentName, L, next)

\* Mutant: a rule without a name is scanned like the others
RECURSIVE ScanRules_KeepsNameless(_, _, _, _)
ScanRules_KeepsNameless(intents, m, L, best) ==
    IF intents = << >> THEN best
    ELSE LET it == Head(intents)
         IN  IF it.t \in {"null", "undefined"} THEN Throw("TypeError")
             ELSE LET intentName == Or(Or(Get(it, "intent"), Get(it, "name")),
                                       Get(it, "id"))
                      patterns == extractPatterns(it)
                  IN  IF patterns = << >>
                      THEN ScanRules_KeepsNameless(Tail(intents), m, L, best)
                      ELSE ScanRules_KeepsNameless(Tail(intents), m, L,
                               ScanPatterns(patterns, m, it, intentName, L, best))

\* The outer loop over the rules; reading a property of null or undefined
\* raises a TypeError
RECURSIVE ScanRules(_, _, _, _)
ScanRules(intents, m, L, best) ==
    IF intents = << >> THEN best
    ELSE LET it == Head(intents)
         IN  IF it.t \in {"null", "undefined"} THEN Throw("TypeError")
             ELSE LET intentName == Or(Or(Get(it, "intent"), Get(it, "name")),
                                       Get(it, "id"))
                      patterns == extractPatterns(it)
                  IN  IF ~Truthy(intentName) THEN ScanRules(Tail(intents), m, L, best)
                      ELSE IF patterns = << >>
                      THEN ScanRules(Tail(intents), m, L, best)
                      ELSE ScanRules(Tail(intents), m, L,
                                     ScanPatterns(patterns, m, it, intentName, L, best))

\* Mutant: the rewrite runs whatever the language
ComparisonSubject_AlwaysRewrite(message, lang) ==
    norm(mapFrenchToEnglishForIntentMatching(message))

\* The string the scan compares the patterns with
ComparisonSubject(message, lang) ==
    LET L == normalizeLang(lang)
        msgForMatching ==
            IF L = FR THEN mapFrenchToEnglishForIntentMatching(message) ELSE message
    IN  norm(msgForMatching)

\* Mutant: a match whose response is empty is reported as no match
matchIntent_EmptyIsNull(intents, message, langArg) ==
    LET lang == IF langArg.t = "undefined" THEN Str(EN) ELSE langArg
    IN  IF intents.t # "array" \/ ~Truthy(message) THEN Null
        ELSE LET L == normalizeLang(lang)
                 m == ComparisonSubject(message, lang)
                 best == ScanRules(intents.a, m, L, Null)
             IN  IF best.t = "throw" THEN best
                 ELSE IF best.t = "null" \/ ~Truthy(best.f.response) THEN Null
                 ELSE Obj([intent |-> best.f.intent, response |-> best.f.response])

\* Mutant: no early return for a falsy message
matchIntent_NoShortCircuit(intents, message, langArg) ==
    LET lang == IF langArg.t = "undefined" THEN Str(EN) ELSE langArg
    IN  IF intents.t # "array" THEN Null
        ELSE LET L == normalizeLang(lang)
                 m == ComparisonSubject(message, lang)
                 best == ScanRules(intents.a, m, L, Null)
             IN  IF best.t = "throw" THEN best
                 ELSE IF best.t = "null" THEN Null
                 ELSE Obj([intent |-> best.f.intent, response |-> best.f.response])

\* matchIntent(intents, message, lang = "en"): Null, an object with the
\* fields intent and response, or a raised exception
matchIntent(intents, message, langArg) ==
    LET lang == IF langArg.t = "undefined" THEN Str(EN) ELSE langArg
    IN  IF intents.t # "array" \/ ~Truthy(message) THEN Null
        ELSE LET L == normalizeLang(lang)
                 m == ComparisonSubject(message, lang)
                 best == ScanRules(intents.a, m, L, Null)
             IN  IF best.t = "throw" THEN best
                 ELSE IF best.t = "null" THEN Null
                 ELSE Obj([intent |-> best.f.intent, response |-> best.f.response])

(***************************************************************************)
(* loadIntents                                                             *)
(* The file system is a function from the candidate paths to Absent or a   *)
(* regular file with its text.                                             *)
(***************************************************************************)
\* The candidate paths, relative to the directory of intents.js, in the
\* order they are tried
candidates ==
    << "../../intents.csv", "../intents.csv", "../../server/intents.csv" >>

Absent == [t |-> "absent"]
File(text) == [t |-> "file", text |-> text]
Path(p) == [t |-> "path", p |-> p]

existsSync(fs, c) == fs[c] # Absent
readFileSync(fs, c) == fs[c].text

\* Mutant: the last existing candidate is taken
RECURSIVE FirstExisting_Last(_, _)
FirstExisting_Last(fs, cs) ==
    IF cs = << >> THEN Null
    ELSE IF existsSync(fs, cs[Len(cs)]) THEN Path(cs[Len(cs)])
    ELSE FirstExisting_Last(fs, SubSeq(cs, 1, Len(cs) - 1))

\* csvPath after the loop over the candidates: the first that exists, or null
RECURSIVE FirstExisting(_, _)
FirstExisting(fs, cs) ==
    IF cs = << >> THEN Null
    ELSE IF existsSync(fs, Head(cs)) THEN Path(Head(cs))
    ELSE FirstExisting(fs, Tail(cs))

\* The message of the Error thrown when no candidate exists, as the list of
\* its pieces: the prefix, then the candidates joined by "\n- "
NotFoundMessage ==
    << "intents.csv not found. Tried:\n- " >> \o
    Join([i \in DOMAIN candidates |-> << candidates[i] >>], << "\n- " >>)

\* raw.split(/\r?\n/): a carriage return right before a line feed belongs to
\* the separator
SplitLines(raw) ==
    LET nl == { i \in 1 .. Len(raw) : raw[i] = NL }
        n == Cardinality(nl)
        pos(k) == CHOOSE i \in nl : Cardinality({ j \in nl : j < i }) = k - 1
        first(k) == IF k = 1 THEN 1 ELSE pos(k - 1) + 1
        last(k) ==
            IF k = n + 1 THEN Len(raw)
            ELSE IF pos(k) - 1 >= first(k) /\ raw[pos(k) - 1] = CR THEN pos(k) - 2
            ELSE pos(k) - 1
    IN  [k \in 1 .. n + 1 |-> SubSeq(raw, first(k), last(k))]

\* The loop of parseCSVLine from position i on
RECURSIVE ScanLine(_, _, _, _, _)
ScanLine(line, i, cur, inQuotes, out) ==
    IF i > Len(line) THEN Append(out, cur)
    ELSE IF line[i] = QUOTE /\ i + 1 <= Len(line) /\ line[i + 1] = QUOTE
    THEN ScanLine(line, i + 2, Append(cur, QUOTE), inQuotes, out)
    ELSE IF line[i] = QUOTE
    THEN ScanLine(line, i + 1, cur, ~inQuotes, out)
    ELSE IF line[i] = "," /\ ~inQuotes
    THEN ScanLine(line, i + 1, << >>, inQuotes, Append(out, cur))
    ELSE ScanLine(line, i + 1, Append(cur, line[i]), inQuotes, out)

parseCSVLine(line) ==
    LET out == ScanLine(line, 1, << >>, FALSE, << >>)
    IN  [k \in DOMAIN out |-> trim(out[k])]

\* The property key a header cell names.  The headers of the model are made
\* of these column names.
PropertyKey(h) ==
    CASE h = << "i","n","t","e","n","t" >> -> "intent"
      [] h = << "n","a","m","e" >> -> "name"
      [] h = << "i","d" >> -> "id"
      [] h = << "p","a","t","t","e","r","n","s" >> -> "patterns"
      [] h = << "k","e","y","w","o","r","d","s" >> -> "keywords"
      [] h = << "p","h","r","a","s","e","s" >> -> "phrases"
      [] h = << "r","e","s","p","o","n","s","e" >> -> "response"
      [] h = << "r","e","s","p","o","n","s","e","_","e","n" >>
           -> "response_en"
      [] h = << "r","e","s","p","o","n","s","e","_","f","r" >>
           -> "response_fr"
      [] OTHER -> "other"

\* The object of one data row: obj[header[i]] = cols[i] ?? "", a later
\* column of the same name overwriting an earlier one
RowObject(header, cols) ==
    Obj([k \in { PropertyKey(header[i]) : i \in DOMAIN header } |->
            LET i == CHOOSE j \in DOMAIN header :
                         /\ PropertyKey(header[j]) = k
                         /\ \A l \in DOMAIN header :
                                PropertyKey(header[l]) = k => l <= j
            IN  IF i <= Len(cols) THEN Str(cols[i]) ELSE Str(<< >>)])

\* Mutant: a row whose intent column is empty yields no object
ParseRows_DropNameless(header, rows) ==
    LET objs == [i \in DOMAIN rows |-> RowObject(header, parseCSVLine(rows[i]))]
    IN  SelectSeq(objs, LAMBDA o : Truthy(Get(o, "intent")))

\* rows.map(line => object of the line)
ParseRows(header, rows) ==
    [i \in DOMAIN rows |-> RowObject(header, parseCSVLine(rows[i]))]

\* loadIntents() on the file system fs: the rule list, or the Error thrown
loadIntents(fs) ==
    LET csvPath == FirstExisting(fs, candidates)
    IN  IF csvPath = Null THEN Throw([name |-> "Error", message |-> NotFoundMessage])
        ELSE LET raw == readFileSync(fs, csvPath.p)
                 lines == SelectSeq(SplitLines(raw), LAMBDA l : Len(trim(l)) > 0)
             IN  IF Len(lines) < 2 THEN Arr(<< >>)
                 ELSE LET cells == split(lines[1], ",")
                          header == [i \in DOMAIN cells |-> trim(cells[i])]
                      IN  Arr(ParseRows(header, Tail(lines)))

(***************************************************************************)
(* geminiReply (gemini.js).  The world gives the API key and the model     *)
(* name of the environment, and what generateContent does for each model:  *)
(* a response whose text() gives a value, or an error thrown.  The texts   *)
(* returned are abridged.                                                  *)
(***************************************************************************)
FixedModels ==
    << << "g","e","m","i","n","i","-","3","-","f","l","a","s","h","-","p","r","e","v","i","e","w" >>,
       << "g","e","m","i","n","i","-","3","-","p","r","o","-","p","r","e","v","i","e","w" >>,
       << "g","e","m","i","n","i","-","2",".","0","-","f","l","a","s","h" >>,
       << "g","e","m","i","n","i","-","2",".","0","-","p","r","o" >>,
       << "g","e","m","i","n","i","-","1",".","5","-","f","l","a","s","h" >>,
       << "g","e","m","i","n","i","-","1",".","5","-","p","r","o" >> >>

\* MODEL_CANDIDATES: the model of the environment first, when it is named
MODEL_CANDIDATES(envModel) ==
    SelectSeq(<< trim(String(Or(envModel, Str(<< >>)))) >> \o FixedModels,
              LAMBDA name : name # << >>)

TextOutcome(v) == [t |-> "text", v |-> v]
ErrorOutcome(err) == [t |-> "error", err |-> err]

ErrorText(err) == toLowerCase(String(Or(Or(GetOpt(err, "message"), err), Str(<< >>))))

isModelNotFoundError(err) ==
    LET msg == ErrorText(err)
    IN  \/ includes(msg, << "4","0","4" >>)
        \/ includes(msg, << "n","o","t"," ","f","o","u","n","d" >>)
        \/ includes(msg, << "i","s"," ","n","o","t"," ","s","u","p","p","o","r","t","e","d" >>)
        \/ includes(msg, << "m","o","d","e","l","s","/" >>)
        \/ (includes(msg, << "m","o","d","e","l" >>) /\ includes(msg, << "n","o","t" >>)
               /\ includes(msg, << "s","u","p","p","o","r","t","e","d" >>))

HardFailureWords ==
    { << "a","p","i"," ","k","e","y" >>,
      << "p","e","r","m","i","s","s","i","o","n" >>,
      << "u","n","a","u","t","h","o","r","i","z","e","d" >>,
      << "f","o","r","b","i","d","d","e","n" >>,
      << "q","u","o","t","a" >>,
      << "r","a","t","e"," ","l","i","m","i","t" >>,
      << "b","i","l","l","i","n","g" >>,
      << "f","a","i","l","e","d"," ","t","o"," ","f","e","t","c","h" >>,
      << "n","e","t","w","o","r","k" >>,
      << "e","n","o","t","f","o","u","n","d" >>,
      << "e","t","i","m","e","d","o","u","t" >> }

isHardFailure(err) ==
    LET msg == ErrorText(err)
    IN  \E w \in HardFailureWords : includes(msg, w)

GEMINI_NOT_CONFIGURED == << "G","e","m","i","n","i"," ","i","s"," ","n","o","t"," ","c","o","n","f","i","g","u","r","e","d"," ","y","e","t","." >>
HardFailureText(safeLang) ==
    IF safeLang = FR THEN << "S","e","r","v","i","c","e"," ","I","A"," ","i","n","d","i","s","p","o","n","i","b","l","e"," ","(","a","c","c","e","s"," ","G","e","m","i","n","i",")","." >>
    ELSE << "A","I"," ","s","e","r","v","i","c","e"," ","u","n","a","v","a","i","l","a","b","l","e"," ","(","G","e","m","i","n","i"," ","a","c","c","e","s","s",")","." >>
UnexpectedErrorText(safeLang) ==
    IF safeLang = FR THEN << "S","e","r","v","i","c","e"," ","I","A"," ","i","n","d","i","s","p","o","n","i","b","l","e","."," ","R","e","e","s","s","a","y","e","z","." >>
    ELSE << "A","I"," ","s","e","r","v","i","c","e"," ","u","n","a","v","a","i","l","a","b","l","e","."," ","T","r","y"," ","l","a","t","e","r","." >>
ExhaustedText(safeLang) ==
    IF safeLang = FR THEN << "S","e","r","v","i","c","e"," ","I","A"," ","i","n","d","i","s","p","o","n","i","b","l","e",":"," ","r","e","s","e","r","v","e","r"," ","u","n"," ","h","o","t","e","l" >>
    ELSE << "A","I"," ","s","e","r","v","i","c","e"," ","u","n","a","v","a","i","l","a","b","l","e",":"," ","u","s","e"," ","b","o","o","k"," ","h","o","t","e","l" >>

\* Mutant: an error is classified as a hard failure first
RECURSIVE RunCandidates_HardFirst(_, _, _, _)
RunCandidates_HardFirst(models, world, safeLang, calls) ==
    IF models = << >> THEN [ret |-> Str(ExhaustedText(safeLang)), calls |-> calls]
    ELSE LET o == world.outcome[Head(models)]
             called == Append(calls, Head(models))
         IN  IF o.t = "text"
             THEN LET text == IF o.v.t \in { "undefined", "null" } THEN Str(<< >>) ELSE o.v
                  IN  IF Truthy(text) /\ trim(String(text)) # << >>
                      THEN [ret |-> Str(trim(String(text))), calls |-> called]
                      ELSE RunCandidates_HardFirst(Tail(models), world, safeLang, called)
             ELSE IF isHardFailure(o.err)
             THEN [ret |-> Str(HardFailureText(safeLang)), calls |-> called]
             ELSE IF isModelNotFoundError(o.err)
             THEN RunCandidates_HardFirst(Tail(models), world, safeLang, called)
             ELSE [ret |-> Str(UnexpectedErrorText(safeLang)), calls |-> called]

\* The loop over the candidates: the value returned and the models on which
\* generateContent was called, in order
RECURSIVE RunCandidates(_, _, _, _)
RunCandidates(models, world, safeLang, calls) ==
    IF models = << >> THEN [ret |-> Str(ExhaustedText(safeLang)), calls |-> calls]
    ELSE LET o == world.outcome[Head(models)]
             called == Append(calls, Head(models))
         IN  IF o.t = "text"
             THEN LET text == IF o.v.t \in { "undefined", "null" } THEN Str(<< >>) ELSE o.v
                  IN  IF Truthy(text) /\ trim(String(text)) # << >>
                      THEN [ret |-> Str(trim(String(text))), calls |-> called]
                      ELSE RunCandidates(Tail(models), world, safeLang, called)
             ELSE IF isModelNotFoundError(o.err)
             THEN RunCandidates(Tail(models), world, safeLang, called)
             ELSE IF isHardFailure(o.err)
             THEN [ret |-> Str(HardFailureText(safeLang)), calls |-> called]
             ELSE [ret |-> Str(UnexpectedErrorText(safeLang)), calls |-> called]

\* geminiReply({ prompt, userContextPrompts, lang }) in the world: genAI is
\* null exactly when the API key is absent or empty
GeminiRun(lang, world) ==
    IF ~Truthy(world.apiKey)
    THEN [ret |-> Str(GEMINI_NOT_CONFIGURED), calls |-> << >>]
    ELSE RunCandidates(MODEL_CANDIDATES(world.envModel), world,
                       IF lang = Str(FR) THEN FR ELSE EN, << >>)

geminiReply(lang, world) == GeminiRun(lang, world).ret

(***************************************************************************)
(* Inputs                                                                  *)
(***************************************************************************)
\* Utterances are concatenations of at most MaxTokens tokens of Vocabulary
MaxTokens == 3

\* "hi", " ", "t", "HÔTEL", "book", "réserver", "taxi"
Vocabulary ==
    { << "h","i" >>,
      << " " >>,
      << "t" >>,
      << "H",OCirc,"T","E","L" >>,
      << "b","o","o","k" >>,
      << "r",eAcute,"s","e","r","v","e","r" >>,
      << "t","a","x","i" >> }

RECURSIVE Phrases(_)
Phrases(n) ==
    IF n = 0 THEN { << >> }
    ELSE LET shorter == Phrases(n - 1)
         IN  shorter \cup { p \o w : p \in shorter, w \in Vocabulary }

\* Whole sentences
\*   "hi there"
\*   "there are many things to do"
\*   "I want to book hotel now"
\*   "can you book hotel for me"
\*   "je veux réserver un hôtel"
\*   "what is the weather"
\*   "réserver un hôtel"
\*   "un hotel"
\*   "Un Hôtel"
\*   "un taxi"
\*   "  "
\*   " \t"
\*   "\u0301"
\*   "hi?"
\*   "hi?t"
\*   "réservation taxi hôtel"
\*   "chauffeur booking"
\*   "un logement reservation"
\*   "transport"
\*   "œhi"
\*   "hotel"
\*   "hi \u0301"
Sentences ==
    { << "h","i"," ","t","h","e","r","e" >>,
      << "t","h","e","r","e"," ","a","r","e"," ","m","a","n","y"," ","t","h","i","n","g","s"," ","t","o"," ","d","o" >>,
      << "I"," ","w","a","n","t"," ","t","o"," ","b","o","o","k"," ","h","o","t","e","l"," ","n","o","w" >>,
      << "c","a","n"," ","y","o","u"," ","b","o","o","k"," ","h","o","t","e","l"," ","f","o","r"," ","m","e" >>,
      << "j","e"," ","v","e","u","x"," ","r",eAcute,"s","e","r","v","e","r"," ","u","n"," ","h",oCirc,"t","e","l" >>,
      << "w","h","a","t"," ","i","s"," ","t","h","e"," ","w","e","a","t","h","e","r" >>,
      << "r",eAcute,"s","e","r","v","e","r"," ","u","n"," ","h",oCirc,"t","e","l" >>,
      << "u","n"," ","h","o","t","e","l" >>,
      << "U","n"," ","H",oCirc,"t","e","l" >>,
      << "u","n"," ","t","a","x","i" >>,
      << " "," " >>,
      << " ",TAB >>,
      << CombAcute >>,
      << "h","i","?" >>,
      << "h","i","?","t" >>,
      << "r",eAcute,"s","e","r","v","a","t","i","o","n"," ","t","a","x","i"," ","h",oCirc,"t","e","l" >>,
      << "c","h","a","u","f","f","e","u","r"," ","b","o","o","k","i","n","g" >>,
      << "u","n"," ","l","o","g","e","m","e","n","t"," ","r","e","s","e","r","v","a","t","i","o","n" >>,
      << "t","r","a","n","s","p","o","r","t" >>,
      << oeLig,"h","i" >>,
      << "h","o","t","e","l" >>,
      << "h","i"," ",CombAcute >> }

\* Utterance values that are not strings
NonStrings == { Undefined, Null, Num(0), Num(5) }

CoreMessages ==
    { Str(p) : p \in Sentences \cup Phrases(1) } \cup NonStrings

Messages == { Str(p) : p \in Phrases(MaxTokens) } \cup CoreMessages

\* Language hints: absent, "fr", "", "en", " FR-ca", "de", "french", "xfr",
\* null, 5
CoreLangs == { Undefined, Str(FR) }

Langs ==
    CoreLangs \cup { Str(<< >>), Str(EN), Str(<< " ","F","R","-","c","a" >>),
                     Str(<< "d","e" >>), Str(<< "f","r","e","n","c","h" >>), Str(<< "x","f","r" >>),
                     Null, Num(5) }

\* {intent: "A", patterns: "hotel", response: "a"}
ruleA ==
    Obj([intent |-> Str(<< "A" >>),
         patterns |-> Str(<< "h","o","t","e","l" >>),
         response |-> Str(<< "a" >>)])

\* {intent: "B", patterns: "book hotel", response: "b"}
ruleB ==
    Obj([intent |-> Str(<< "B" >>),
         patterns |-> Str(<< "b","o","o","k"," ","h","o","t","e","l" >>),
         response |-> Str(<< "b" >>)])

\* {intent: "greet", patterns: "hi", response_en: "Hi!", response_fr: "Bonjour!"}
greet ==
    Obj([intent |-> Str(<< "g","r","e","e","t" >>),
         patterns |-> Str(<< "h","i" >>),
         response_en |-> Str(<< "H","i","!" >>),
         response_fr |-> Str(<< "B","o","n","j","o","u","r","!" >>)])

\* {intent: "book_hotel", patterns: "book hotel", response: "H"}
bookHotel ==
    Obj([intent |-> Str(<< "b","o","o","k","_","h","o","t","e","l" >>),
         patterns |-> Str(<< "b","o","o","k"," ","h","o","t","e","l" >>),
         response |-> Str(<< "H" >>)])

\* {intent: "book_taxi", patterns: "book taxi|taxi", response_en: "T", response_fr: "  "}
bookTaxi ==
    Obj([intent |-> Str(<< "b","o","o","k","_","t","a","x","i" >>),
         patterns |-> Str(<< "b","o","o","k"," ","t","a","x","i","|","t","a","x","i" >>),
         response_en |-> Str(<< "T" >>),
         response_fr |-> Str(<< " "," " >>)])

\* {intent: "x", patterns: "taxi|book", response: "1"}
tie1 ==
    Obj([intent |-> Str(<< "x" >>),
         patterns |-> Str(<< "t","a","x","i","|","b","o","o","k" >>),
         response |-> Str(<< "1" >>)])

\* {intent: "y", patterns: "book|taxi|hi", response: "2"}
tie2 ==
    Obj([intent |-> Str(<< "y" >>),
         patterns |-> Str(<< "b","o","o","k","|","t","a","x","i","|","h","i" >>),
         response |-> Str(<< "2" >>)])

\* {intent: "x", patterns: "hi|hotel", response: "3"}
tie3 ==
    Obj([intent |-> Str(<< "x" >>),
         patterns |-> Str(<< "h","i","|","h","o","t","e","l" >>),
         response |-> Str(<< "3" >>)])

\* {patterns: "hi", response: "n"}
noName ==
    Obj([patterns |-> Str(<< "h","i" >>),
         response |-> Str(<< "n" >>)])

\* {intent: "", patterns: "hi|hotel", response: "e"}
emptyName ==
    Obj([intent |-> Str(<< >>),
         patterns |-> Str(<< "h","i","|","h","o","t","e","l" >>),
         response |-> Str(<< "e" >>)])

\* {intent: "n", response: "p"}
noPatterns ==
    Obj([intent |-> Str(<< "n" >>),
         response |-> Str(<< "p" >>)])

\* {id: "g", keywords: " Hôtel | |TAXI "}
aliased ==
    Obj([id |-> Str(<< "g" >>),
         keywords |-> Str(<< " ","H",oCirc,"t","e","l"," ","|"," ","|","T","A","X","I"," " >>)])

\* {name: "f", phrases: "réserver|un hôtel", fr: "Oui"}
french ==
    Obj([name |-> Str(<< "f" >>),
         phrases |-> Str(<< "r",eAcute,"s","e","r","v","e","r","|","u","n"," ","h",oCirc,"t","e","l" >>),
         fr |-> Str(<< "O","u","i" >>)])

\* {intent: "q", patterns: "hi?|t hi", response: "q"}
punct ==
    Obj([intent |-> Str(<< "q" >>),
         patterns |-> Str(<< "h","i","?","|","t"," ","h","i" >>),
         response |-> Str(<< "q" >>)])

\* {intent: "", name: "n1", id: "i1", keywords: "hi| book ", phrases: "taxi", response: "m"}
multiAlias ==
    Obj([intent |-> Str(<< >>),
         name |-> Str(<< "n","1" >>),
         id |-> Str(<< "i","1" >>),
         keywords |-> Str(<< "h","i","|"," ","b","o","o","k"," " >>),
         phrases |-> Str(<< "t","a","x","i" >>),
         response |-> Str(<< "m" >>)])

\* {intent: "i2", name: "n2", patterns: "taxi", keywords: "hi", response: "k"}
multiAlias2 ==
    Obj([intent |-> Str(<< "i","2" >>),
         name |-> Str(<< "n","2" >>),
         patterns |-> Str(<< "t","a","x","i" >>),
         keywords |-> Str(<< "h","i" >>),
         response |-> Str(<< "k" >>)])

\* Rule lists as the loader produces them: arrays of objects of strings
RuleSets ==
    { Arr(<< ruleA, ruleB >>),
      Arr(<< ruleB, ruleA >>),
      Arr(<< greet, bookHotel, bookTaxi >>),
      Arr(<< tie1, tie2, tie3 >>),
      Arr(<< tie3, tie2, tie1 >>),
      Arr(<< noName, emptyName, noPatterns, aliased >>),
      Arr(<< french, punct >>),
      Arr(<< emptyName, noPatterns >>),
      Arr(<< multiAlias, multiAlias2 >>),
      Arr(<< >>) }

\* Other values a caller can pass as the rule set
MalformedRuleSets ==
    { Undefined,
      Null,
      Str(<< "h","i" >>),
      greet,
      Arr(<< Null >>),
      Arr(<< greet, Undefined >>),
      Arr(<< Null, greet >>),
      Arr(<< Num(5), Str(<< "h","i" >>),
             Obj([intent |-> Str(<< "k" >>),
                  patterns |-> Arr(<< Null, Str(<< "h","i" >>), Num(5) >>)]),
             Obj([intent |-> Str(<< "k" >>), patterns |-> Num(5)]),
             Obj([intent |-> Str(<< "k" >>), patterns |-> Obj([x |-> Num(5)])]) >>) }

Inputs ==
    (RuleSets \X Messages \X CoreLangs)
        \cup ((RuleSets \cup MalformedRuleSets) \X CoreMessages \X Langs)

(***************************************************************************)
(* Rule sources.  A source is what the author of intents.csv wrote: lines  *)
(* that are blank or rows of cells, a cell being a text written bare or    *)
(* enclosed in double quotes with its quotes doubled.                      *)
(***************************************************************************)
MaxField == 2
MaxLines == 3

Bare(text) == [text |-> text, quoted |-> FALSE]
InQuotes(text) == [text |-> text, quoted |-> TRUE]
RowLine(cells) == [kind |-> "row", cells |-> cells]
BlankLine(text) == [kind |-> "blank", text |-> text]

RECURSIVE Doubled(_)
Doubled(s) ==
    IF s = << >> THEN << >>
    ELSE (IF Head(s) = QUOTE THEN << QUOTE, QUOTE >> ELSE << Head(s) >>)
         \o Doubled(Tail(s))

WriteCell(c) ==
    IF c.quoted THEN << QUOTE >> \o Doubled(c.text) \o << QUOTE >> ELSE c.text

WriteLine(l) ==
    IF l.kind = "blank" THEN l.text
    ELSE Join([i \in DOMAIN l.cells |-> WriteCell(l.cells[i])], << "," >>)

\* The text of the file: the lines joined by the line ending, which also
\* closes the last line when final is set
WriteSource(src) ==
    Join([i \in DOMAIN src.lines |-> WriteLine(src.lines[i])], src.eol)
    \o (IF src.final /\ src.lines # << >> THEN src.eol ELSE << >>)

Header3 == RowLine(<< Bare(<< "i","n","t","e","n","t" >>),
                      Bare(<< " ","p","a","t","t","e","r","n","s" >>),
                      Bare(<< "r","e","s","p","o","n","s","e" >>) >>)

\* greet,hi,Hello
greetRow == RowLine(<< Bare(<< "g","r","e","e","t" >>), Bare(<< "h","i" >>),
                       Bare(<< "H","e","l","l","o" >>) >>)
\* ,hi,x
namelessRow == RowLine(<< Bare(<< >>), Bare(<< "h","i" >>), Bare(<< "x" >>) >>)
\* "","hi","x"
quotedNamelessRow ==
    RowLine(<< InQuotes(<< >>), InQuotes(<< "h","i" >>), InQuotes(<< "x" >>) >>)
\* taxi,"taxi|cab","On it, ""boss"""
taxiRow == RowLine(<< Bare(<< "t","a","x","i" >>), InQuotes(<< "t","a","x","i","|","x" >>),
                      InQuotes(<< "O","n"," ","i","t",","," ",QUOTE,"x",QUOTE >>) >>)

LinePool ==
    { Header3, greetRow, namelessRow, quotedNamelessRow, taxiRow,
      BlankLine(<< " ", TAB >>) }

SeqsUpTo(S, n) == UNION { [1 .. k -> S] : k \in 0 .. n }

\* The first row of a source is its header
HeaderFirst(lines) ==
    \A i \in DOMAIN lines :
        (lines[i].kind = "row" /\ \A j \in 1 .. i - 1 : lines[j].kind = "blank")
            => lines[i] = Header3

LF == << NL >>
CRLF == << CR, NL >>

TableSources ==
    { [lines |-> ls, eol |-> e, final |-> fin] :
        ls \in { l \in SeqsUpTo(LinePool, MaxLines) : HeaderFirst(l) },
        e \in { LF, CRLF }, fin \in BOOLEAN }

\* Field texts: empty, with commas, with quotes, with surrounding blanks
FieldAlphabet == { "x", ",", QUOTE, " " }
FieldTexts == SeqsUpTo(FieldAlphabet, MaxField)

\* Companions of the field under test in its row
Companions ==
    { Bare(<< "h","i" >>), InQuotes(<< "t",",",QUOTE,"x" >>) }

FieldSources ==
    { [lines |-> << Header3,
                    RowLine([i \in 1 .. 3 |-> IF i = k THEN InQuotes(t) ELSE o]) >>,
       eol |-> LF, final |-> FALSE] :
        k \in 1 .. 3, t \in FieldTexts, o \in Companions }

Sources == TableSources \cup FieldSources

CoreSources ==
    { [lines |-> ls, eol |-> LF, final |-> TRUE] :
        ls \in { << >>, << Header3 >>, << Header3, greetRow >> } }

\* What the other existing candidates hold
DecoyText == WriteSource([lines |-> << Header3, taxiRow >>, eol |-> LF, final |-> TRUE])

Paths == { candidates[i] : i \in DOMAIN candidates }

\* The file system in which the candidates of present exist, the first of
\* them in candidate order holding the text of src
FileSystem(src, present) ==
    [p \in Paths |->
        IF p \notin present THEN Absent
        ELSE IF \A i \in DOMAIN candidates :
                    candidates[i] = p => \A j \in 1 .. i - 1 : candidates[j] \notin present
        THEN File(WriteSource(src))
        ELSE File(DecoyText)]

LoadInputs ==
    (Sources \X { { candidates[1] } }) \cup (CoreSources \X SUBSET Paths)

LoadMessages == { Str(<< "h","i" >>), Str(<< "t","a","x","i"," ","x" >>) }

(***************************************************************************)
(* Worlds of geminiReply                                                   *)
(***************************************************************************)
\* Outcomes after which the loop moves on to the next candidate
SkipOutcomes ==
    { TextOutcome(Str(<< " "," " >>)),
      TextOutcome(Undefined),
      ErrorOutcome(Obj([message |-> Str(<< "4","0","4" >>)])),
      ErrorOutcome(Obj([message |-> Str(<< "q","u","o","t","a"," ","o","n"," ","m","o","d","e","l","s","/","x" >>)])) }

\* Outcomes that end the loop
StopOutcomes ==
    { TextOutcome(Str(<< "o","k" >>)),
      TextOutcome(Str(<< " ","o","u","i"," " >>)),
      ErrorOutcome(Obj([message |-> Str(<< "A","P","I"," ","k","e","y"," ","i","n","v","a","l","i","d" >>)])),
      ErrorOutcome(Str(<< "N","e","t","w","o","r","k"," ","d","o","w","n" >>)),
      ErrorOutcome(Obj([message |-> Str(<< "b","o","o","m" >>)])),
      ErrorOutcome(Null) }

Outcomes ==
    SkipOutcomes \cup StopOutcomes
        \cup { TextOutcome(Str(<< >>)),
               ErrorOutcome(Obj([message |-> Str(<< "M","o","d","e","l"," ","i","s"," ","N","O","T"," ","y","e","t"," ","s","u","p","p","o","r","t","e","d" >>)])) }

\* A model that answers, placed after the deciding candidate
Late == TextOutcome(Str(<< "l","a","t","e" >>))

EnvModels == { Undefined, Str(<< " ","m","y"," " >>), Str(<< " "," " >>) }

IndexOf(seq, x) == CHOOSE i \in DOMAIN seq : seq[i] = x

\* The world in which the first k - 1 candidates have outcome s, the k-th
\* has outcome o and the later ones answer
WorldOf(key, env, k, s, o) ==
    LET models == MODEL_CANDIDATES(env)
    IN  [apiKey |-> key, envModel |-> env,
         outcome |-> [n \in { models[i] : i \in DOMAIN models } |->
                         IF IndexOf(models, n) < k THEN s
                         ELSE IF IndexOf(models, n) = k THEN o
                         ELSE Late]]

ApiKeys == { Undefined, Str(<< >>), Str(<< "k" >>) }

Worlds ==
    { WorldOf(key, env, k, s, o) :
        key \in { Str(<< "k" >>) }, env \in EnvModels,
        k \in 1 .. Len(FixedModels) + 2, s \in SkipOutcomes, o \in Outcomes }
    \cup { WorldOf(key, Undefined, 1, Late, Late) : key \in ApiKeys }

GeminiLangs == { Undefined, Str(FR), Str(EN) }

VARIABLES intents, message, lang, result, source, files, reqs, user_prompts, gem, bk

vars ==
    << intents, message, lang, result, source, files, reqs, user_prompts, gem, bk >>

NoCall == [t |-> "nocall"]
NotLoaded == [t |-> "notloaded"]
\* The rule list is given in memory; the file system plays no part
Unread == [t |-> "unread"]

Init ==
    /\ \E in \in Inputs :
           /\ intents = in[1]
           /\ message = in[2]
           /\ lang = in[3]
    /\ result = NoCall
    /\ source = Unread
    /\ files = Unread
    /\ reqs = << >>
    /\ user_prompts = << >>
    /\ gem = NoCall
    /\ bk = NoCall

\* The call matchIntent(intents, message, lang), once the rule list is loaded
MatchIntent ==
    /\ intents.t \notin { "notloaded", "throw" }
    /\ result = NoCall
    /\ result' = matchIntent(intents, message, lang)
    /\ UNCHANGED << intents, message, lang, source, files, reqs, user_prompts, gem, bk >>

Next == MatchIntent

Spec == Init /\ [][Next]_vars

\* Process start: the rule list is not loaded yet
InitLoad ==
    /\ \E in \in LoadInputs :
           /\ source = in[1]
           /\ files = FileSystem(in[1], in[2])
    /\ message \in LoadMessages
    /\ lang = Undefined
    /\ intents = NotLoaded
    /\ result = NoCall
    /\ reqs = << >>
    /\ user_prompts = << >>
    /\ gem = NoCall
    /\ bk = NoCall

\* const intents = loadIntents(); an Error thrown ends the process
LoadIntents ==
    /\ intents = NotLoaded
    /\ intents' = loadIntents(files)
    /\ UNCHANGED << message, lang, result, source, files, reqs, user_prompts, gem, bk >>

NextLoad == LoadIntents \/ MatchIntent

SpecLoad == InitLoad /\ [][NextLoad]_vars

\* A call of geminiReply in some world
InitGemini ==
    /\ gem \in { [lang |-> l, world |-> w, out |-> NoCall] :
                    l \in GeminiLangs, w \in Worlds }
    /\ intents = Arr(<< >>)
    /\ message = Undefined
    /\ lang = Undefined
    /\ result = NoCall
    /\ source = Unread
    /\ files = Unread
    /\ reqs = << >>
    /\ user_prompts = << >>
    /\ bk = NoCall

GeminiReply ==
    /\ gem # NoCall
    /\ gem.out = NoCall
    /\ gem' = [gem EXCEPT !.out = GeminiRun(gem.lang, gem.world)]
    /\ UNCHANGED << intents, message, lang, result, source, files, reqs, user_prompts, bk >>

NextGemini == GeminiReply

SpecGemini == InitGemini /\ [][NextGemini]_vars

(***************************************************************************)
(* The chat endpoint (chat.routes.js).  A request runs the handler from    *)
(* one await to the next; requests interleave at the awaits.  The table    *)
(* user_prompts is the list of its rows in the order of created_at.        *)
(***************************************************************************)
\* OFFSET 10 and LIMIT 10 of the two queries
KeepLast == 10

Requests == { 1, 2 }
Users == { 1, 2 }

ChatRuleSets == { Arr(<< greet, bookHotel, bookTaxi >>) }

ChatMessages ==
    { Str(<< "h","i" >>), Str(<< "b","o","o","k"," ","t","a","x","i" >>), Str(<< "t" >>), Str(<< " "," " >>), Undefined }

ChatLangs == { Undefined, Str(FR) }

\* The worlds in which the handler awaits geminiReply: no API key, a model
\* that answers, a hard failure, an unexpected error, a blank reply and then
\* an answer, and no model that answers
ChatWorlds ==
    { WorldOf(Undefined, Undefined, 1, Late, Late),
      WorldOf(Str(<< "k" >>), Undefined, 1, Late, TextOutcome(Str(<< "o","k" >>))),
      WorldOf(Str(<< "k" >>), Undefined, 1, Late,
              ErrorOutcome(Obj([message |-> Str(<< "A","P","I"," ","k","e","y"," ","i","n","v","a","l","i","d" >>)]))),
      WorldOf(Str(<< "k" >>), Undefined, 1, Late,
              ErrorOutcome(Obj([message |-> Str(<< "b","o","o","m" >>)]))),
      WorldOf(Str(<< "k" >>), Undefined, 2, TextOutcome(Str(<< " "," " >>)), Late),
      WorldOf(Str(<< "k" >>), Undefined, Len(FixedModels) + 1,
              ErrorOutcome(Obj([message |-> Str(<< "4","0","4" >>)])), Late) }

NOT_CONFIGURED == << "n","o","t"," ","c","o","n","f","i","g","u","r","e","d" >>

PromptRow(id, user, prompt, now) ==
    [id |-> id, user_id |-> user, prompt |-> prompt, created_at |-> now]

\* Ten earlier prompts of user 1, stored at ten different times
OldPrompts == [i \in 1 .. KeepLast |-> PromptRow(i, 1, Str(<< "t" >>), i)]

InitChat ==
    /\ intents \in ChatRuleSets
    /\ \E u \in Users, m1, m2 \in ChatMessages, l1, l2 \in ChatLangs :
           reqs = [r \in Requests |->
                      [pc |-> "received",
                       userId |-> IF r = 1 THEN 1 ELSE u,
                       message |-> IF r = 1 THEN m1 ELSE m2,
                       lang |-> IF r = 1 THEN l1 ELSE l2,
                       L |-> Undefined, m |-> Undefined,
                       context |-> Undefined, res |-> Undefined,
                       world |-> Undefined, reply |-> Undefined, did |-> << >>]]
    /\ user_prompts = [rows |-> OldPrompts, serial |-> KeepLast + 1,
                       now |-> KeepLast, stored |-> OldPrompts]
    /\ message = Undefined
    /\ lang = Undefined
    /\ result = NoCall
    /\ source = Unread
    /\ files = Unread
    /\ gem = NoCall
    /\ bk = NoCall

Status400(error) == [status |-> 400, body |-> [error |-> error]]
Json(body) == [status |-> 200, body |-> body]

\* Mutant: only an absent or empty message is refused
Validate_NoTrim(r) ==
    /\ reqs[r].pc = "received"
    /\ LET L == routeNormalizeLang(reqs[r].lang)
           msg == reqs[r].message
       IN  IF ~Truthy(msg)
           THEN reqs' = [reqs EXCEPT ![r].L = L, ![r].pc = "done",
                            ![r].res = Status400(IF L = FR THEN "Le message est requis"
                                                 ELSE "Message is required")]
           ELSE reqs' = [reqs EXCEPT ![r].L = L, ![r].pc = "insert"]
    /\ UNCHANGED << intents, message, lang, result, source, files, user_prompts, gem, bk >>

\* Lines 17-24: the language is resolved and a blank message is refused
Validate(r) ==
    /\ reqs[r].pc = "received"
    /\ LET L == routeNormalizeLang(reqs[r].lang)
           msg == reqs[r].message
       IN  IF ~Truthy(msg) \/ ~Truthy(Str(trim(String(msg))))
           THEN reqs' = [reqs EXCEPT ![r].L = L, ![r].pc = "done",
                            ![r].res = Status400(IF L = FR THEN "Le message est requis"
                                                 ELSE "Message is required")]
           ELSE reqs' = [reqs EXCEPT ![r].L = L, ![r].pc = "insert"]
    /\ UNCHANGED << intents, message, lang, result, source, files, user_prompts, gem, bk >>

\* Line 27: INSERT INTO user_prompts.  created_at is NOW() of the statement
\* (schema.sql line 22); two statements may read the same time.
InsertPrompt(r) ==
    /\ reqs[r].pc = "insert"
    /\ \E tick \in { 0, 1 } :
           LET now == user_prompts.now + tick
               row == PromptRow(user_prompts.serial, reqs[r].userId, reqs[r].message, now)
           IN  user_prompts' =
                   [rows |-> Append(user_prompts.rows, row),
                    serial |-> user_prompts.serial + 1,
                    now |-> now,
                    stored |-> Append(user_prompts.stored, row)]
    /\ reqs' = [reqs EXCEPT ![r].pc = "delete", ![r].did = Append(@, "insert")]
    /\ UNCHANGED << intents, message, lang, result, source, files, gem, bk >>

\* The rows of a user, oldest first
RowsOf(rows, user) == SelectSeq(rows, LAMBDA row : row.user_id = user)

\* The results of ORDER BY created_at DESC OFFSET n over rows held oldest
\* first: the sets of all but n rows that hold no row newer than a row left
\* out of them.  Rows of one created_at come in any order.
Offset(rows, n) ==
    LET all == { rows[i] : i \in DOMAIN rows }
        k == IF Len(rows) > n THEN Len(rows) - n ELSE 0
        pool == { row \in all : k > 0 /\ row.created_at <= rows[k].created_at }
    IN  { rest \in SUBSET pool :
              /\ Cardinality(rest) = k
              /\ \A old \in rest : \A new \in all \ rest :
                     old.created_at <= new.created_at }

\* Mutant: the DELETE keeps the ten most recent rows of the table
DeleteOldPrompts_AnyUser(r) ==
    /\ reqs[r].pc = "delete"
    /\ \E rest \in Offset(user_prompts.rows, KeepLast) :
           LET doomed == { row.id : row \in rest }
           IN  user_prompts' =
                   [user_prompts EXCEPT
                        !.rows = SelectSeq(@, LAMBDA row : row.id \notin doomed)]
    /\ reqs' = [reqs EXCEPT ![r].pc = "match", ![r].did = Append(@, "delete")]
    /\ UNCHANGED << intents, message, lang, result, source, files, gem, bk >>

\* Lines 30-39: DELETE all but the user's ten most recent rows
DeleteOldPrompts(r) ==
    /\ reqs[r].pc = "delete"
    /\ \E rest \in Offset(RowsOf(user_prompts.rows, reqs[r].userId), KeepLast) :
           LET doomed == { row.id : row \in rest }
           IN  user_prompts' =
                   [user_prompts EXCEPT
                        !.rows = SelectSeq(@, LAMBDA row : row.id \notin doomed)]
    /\ reqs' = [reqs EXCEPT ![r].pc = "match", ![r].did = Append(@, "delete")]
    /\ UNCHANGED << intents, message, lang, result, source, files, gem, bk >>

\* Mutant: only the hotel intent is a trigger
IsTrigger_HotelOnly(m) == Get(m, "intent") = Str(<< "b","o","o","k","_","h","o","t","e","l" >>)

IsTrigger(m) ==
    Get(m, "intent") \in { Str(<< "b","o","o","k","_","h","o","t","e","l" >>),
                           Str(<< "b","o","o","k","_","t","a","x","i" >>) }

\* Mutant: a matched intent that is no trigger goes on to the language model
Match_FallbackUnlessTrigger(r) ==
    /\ reqs[r].pc = "match"
    /\ LET m == matchIntent(intents, reqs[r].message, Str(reqs[r].L))
       IN  IF Truthy(m) /\ IsTrigger(m)
           THEN reqs' = [reqs EXCEPT ![r].m = m, ![r].pc = "done",
                            ![r].did = Append(@, "match"),
                            ![r].res = Json([type |-> "trigger",
                                             intent |-> Get(m, "intent"),
                                             text |-> Get(m, "response")])]
           ELSE reqs' = [reqs EXCEPT ![r].m = m, ![r].pc = "select",
                            ![r].did = Append(@, "match")]
    /\ UNCHANGED << intents, message, lang, result, source, files, user_prompts, gem, bk >>

\* Mutant: matching consumes the first rule of the list
Match_ConsumesRule(r) ==
    /\ reqs[r].pc = "match"
    /\ LET m == matchIntent(intents, reqs[r].message, Str(reqs[r].L))
       IN  IF Truthy(m)
           THEN reqs' = [reqs EXCEPT ![r].m = m, ![r].pc = "done",
                            ![r].did = Append(@, "match"),
                            ![r].res = Json([type |-> IF IsTrigger(m) THEN "trigger"
                                                      ELSE "intent",
                                             intent |-> Get(m, "intent"),
                                             text |-> Get(m, "response")])]
           ELSE reqs' = [reqs EXCEPT ![r].m = m, ![r].pc = "select",
                            ![r].did = Append(@, "match")]
    /\ intents' = Arr(Tail(intents.a))
    /\ UNCHANGED << message, lang, result, source, files, user_prompts, gem, bk >>

\* Lines 42-58: matchIntent, and the answer when a rule matched
Match(r) ==
    /\ reqs[r].pc = "match"
    /\ LET m == matchIntent(intents, reqs[r].message, Str(reqs[r].L))
       IN  IF Truthy(m)
           THEN reqs' = [reqs EXCEPT ![r].m = m, ![r].pc = "done",
                            ![r].did = Append(@, "match"),
                            ![r].res = Json([type |-> IF IsTrigger(m) THEN "trigger"
                                                      ELSE "intent",
                                             intent |-> Get(m, "intent"),
                                             text |-> Get(m, "response")])]
           ELSE reqs' = [reqs EXCEPT ![r].m = m, ![r].pc = "select",
                            ![r].did = Append(@, "match")]
    /\ UNCHANGED << intents, message, lang, result, source, files, user_prompts, gem, bk >>

Reverse(s) == [i \in DOMAIN s |-> s[Len(s) + 1 - i]]

\* The results of ORDER BY created_at DESC over rows held oldest first: rows
\* of one created_at come in any order
RECURSIVE OrderByDesc(_)
OrderByDesc(rows) ==
    IF rows = << >> THEN { << >> }
    ELSE LET newest == { i \in DOMAIN rows : rows[i].created_at = rows[Len(rows)].created_at }
             first == CHOOSE i \in newest : \A j \in newest : i <= j
             heads == { h \in [1 .. Cardinality(newest) -> newest] :
                            \A i, j \in DOMAIN h : h[i] = h[j] => i = j }
         IN  { [i \in DOMAIN h |-> rows[h[i]]] \o tail :
                   h \in heads, tail \in OrderByDesc(SubSeq(rows, 1, first - 1)) }

\* Lines 61-65: the user's ten most recent prompts, oldest first
SelectPrompts(r) ==
    /\ reqs[r].pc = "select"
    /\ \E desc \in OrderByDesc(RowsOf(user_prompts.rows, reqs[r].userId)) :
           LET last == SubSeq(desc, 1, IF Len(desc) < KeepLast THEN Len(desc) ELSE KeepLast)
           IN  reqs' = [reqs EXCEPT ![r].pc = "gemini", ![r].did = Append(@, "select"),
                           ![r].context = Reverse([i \in DOMAIN last |-> last[i].prompt])]
    /\ UNCHANGED << intents, message, lang, result, source, files, user_prompts, gem, bk >>

\* Lines 68-112: geminiReply is awaited in some world; its reply, or the
\* fallback answer.  The texts of the fallback answers are abridged.
Gemini(r) ==
    /\ reqs[r].pc = "gemini"
    /\ \E world \in ChatWorlds :
           LET reply == geminiReply(Str(reqs[r].L), world)
           IN  reqs' = [reqs EXCEPT ![r].pc = "done", ![r].did = Append(@, "gemini"),
                           ![r].world = world, ![r].reply = reply,
                           ![r].res =
                               IF reply.t = "throw"
                               THEN Json([type |-> "fallback",
                                          text |-> IF reqs[r].L = FR
                                                   THEN "Desole. J'ai du mal a repondre pour le moment"
                                                   ELSE "Sorry. I'm having trouble answering that right now"])
                               ELSE IF ~Truthy(reply)
                                       \/ includes(toLowerCase(String(reply)), NOT_CONFIGURED)
                               THEN Json([type |-> "fallback",
                                          text |-> IF reqs[r].L = FR
                                                   THEN "Desole. Je ne peux pas traiter cette demande pour le moment"
                                                   ELSE "Sorry. I can't process that request right now"])
                               ELSE Json([type |-> "gemini", text |-> reply])]
    /\ UNCHANGED << intents, message, lang, result, source, files, user_prompts, gem, bk >>

NextChat ==
    \E r \in Requests :
        \/ Validate(r)
        \/ InsertPrompt(r)
        \/ DeleteOldPrompts(r)
        \/ Match(r)
        \/ SelectPrompts(r)
        \/ Gemini(r)

SpecChat == InitChat /\ [][NextChat]_vars

(***************************************************************************)
(* POST /api/bookings (routes/booking.routes.js): one request, a step of   *)
(* the handler for each awaited call, which the environment lets succeed   *)
(* or fail                                                                 *)
(***************************************************************************)
BookingTypes == { "hotel", "taxi", "car" }

\* The bodies of the request: the type, whether the other fields satisfy the
\* schema of the type, and the language
BookingBodies ==
    { [type |-> t, wellFormed |-> w, lang |-> l] :
        t \in BookingTypes, w \in BOOLEAN, l \in { Undefined, Str(FR) } }

NoLink == [to |-> ""]
buildHotelLink == [to |-> "booking.com"]
buildTaxiWhatsAppLink(L) == [to |-> "wa.me", lang |-> L]
buildTaxiMapsDirectionsLink == [to |-> "google.com/maps"]

InitBooking ==
    /\ bk \in { [pc |-> "received", body |-> b, L |-> Undefined,
                  booking |-> Undefined, externalLink |-> NoLink,
                  qrTargetLink |-> NoLink, finalExternalLink |-> NoLink,
                  qrUrl |-> NoLink, user |-> Undefined,
                  tokens |-> "", calendar |-> Undefined, email |-> Undefined,
                  calls |-> << >>, res |-> Undefined] : b \in BookingBodies }
    /\ intents = Arr(<< >>)
    /\ message = Undefined
    /\ lang = Undefined
    /\ result = NoCall
    /\ source = Unread
    /\ files = Unread
    /\ reqs = << >>
    /\ user_prompts = << >>
    /\ gem = NoCall

\* Lines 311-316: the catch of the handler
BookingFailed(error) ==
    bk' = [bk EXCEPT !.pc = "done", !.res = [status |-> 400, body |-> [error |-> error]]]

\* Lines 173-186: the body is parsed by the schema of its type
ParseBody ==
    /\ bk # NoCall
    /\ bk.pc = "received"
    /\ IF bk.body.type \notin { "hotel", "taxi" }
       THEN BookingFailed("Invalid booking type")
       ELSE IF ~bk.body.wellFormed
       THEN BookingFailed("Validation failed")
       ELSE bk' = [bk EXCEPT !.pc = "insert",
                      !.L = IF bk.body.type = "taxi"
                            THEN bookingNormalizeLang(Or(bk.body.lang, Str(EN)))
                            ELSE bookingNormalizeLang(Undefined)]
    /\ UNCHANGED << intents, message, lang, result, source, files, reqs, user_prompts, gem >>

\* Lines 189-196: INSERT INTO bookings
InsertBooking ==
    /\ bk # NoCall
    /\ bk.pc = "insert"
    /\ \E settled \in { "resolved", "rejected" } :
           IF settled = "rejected" THEN BookingFailed("insert failed")
           ELSE bk' = [bk EXCEPT !.pc = "update",
                          !.booking = [id |-> 1, type |-> bk.body.type,
                                       external_link |-> Null]]
    /\ UNCHANGED << intents, message, lang, result, source, files, reqs, user_prompts, gem >>

\* Lines 201-218: the links are built and the external link is saved; the
\* UPDATE returns the row, or no row when the booking is gone
UpdateLink ==
    /\ bk # NoCall
    /\ bk.pc = "update"
    /\ LET externalLink == IF bk.body.type = "hotel" THEN buildHotelLink
                           ELSE buildTaxiWhatsAppLink(bk.L)
           qrTargetLink == IF bk.body.type = "hotel" THEN externalLink
                           ELSE buildTaxiMapsDirectionsLink
       IN  \E settled \in { "row", "no row", "rejected" } :
               IF settled = "rejected" THEN BookingFailed("update failed")
               ELSE bk' = [bk EXCEPT !.pc = "qr",
                              !.externalLink = externalLink,
                              !.qrTargetLink = qrTargetLink,
                              !.finalExternalLink = externalLink]
    /\ UNCHANGED << intents, message, lang, result, source, files, reqs, user_prompts, gem >>

\* Lines 221-227: generateQrPng writes the image of the QR target
GenerateQr ==
    /\ bk # NoCall
    /\ bk.pc = "qr"
    /\ \E settled \in { "resolved", "rejected" } :
           IF settled = "rejected" THEN BookingFailed("qr failed")
           ELSE bk' = [bk EXCEPT !.pc = "user",
                          !.qrUrl = [to |-> "/uploads/qr", of |-> bk.qrTargetLink]]
    /\ UNCHANGED << intents, message, lang, result, source, files, reqs, user_prompts, gem >>

\* Lines 230-236: SELECT the user; calendar starts as not connected
SelectUser ==
    /\ bk # NoCall
    /\ bk.pc = "user"
    /\ \E settled \in { "row", "no row", "rejected" } :
           IF settled = "rejected" THEN BookingFailed("select failed")
           ELSE bk' = [bk EXCEPT !.pc = "token",
                          !.user = IF settled = "row"
                                   THEN Obj([email |-> Str(<< "a","@","b" >>),
                                             username |-> Str(<< "a" >>)])
                                   ELSE Undefined,
                          !.calendar = [ok |-> FALSE, reason |-> "not_connected"]]
    /\ UNCHANGED << intents, message, lang, result, source, files, reqs, user_prompts, gem >>

\* Lines 238-249, 267-270: SELECT the token row of the user
SelectToken ==
    /\ bk # NoCall
    /\ bk.pc = "token"
    /\ \E settled \in { "no row", "no refresh_token", "refresh_token", "rejected" } :
           IF settled = "rejected"
           THEN bk' = [bk EXCEPT !.pc = "email", !.tokens = settled,
                          !.calendar = [ok |-> FALSE, reason |-> "calendar_error",
                                        error |-> "select failed"]]
           ELSE IF settled = "no row"
           THEN bk' = [bk EXCEPT !.pc = "email", !.tokens = settled,
                          !.calendar = [ok |-> FALSE, reason |-> "not_connected"]]
           ELSE IF settled = "no refresh_token"
           THEN bk' = [bk EXCEPT !.pc = "email", !.tokens = settled,
                          !.calendar = [ok |-> FALSE, reason |-> "missing_refresh_token"]]
           ELSE bk' = [bk EXCEPT !.pc = "calendar", !.tokens = settled]
    /\ UNCHANGED << intents, message, lang, result, source, files, reqs, user_prompts, gem >>

\* Mutant: a failed insertEvent fails the booking
InsertEvent_Blocking ==
    /\ bk # NoCall
    /\ bk.pc = "calendar"
    /\ \E settled \in { "resolved", "rejected" } :
           IF settled = "rejected"
           THEN bk' = [bk EXCEPT !.pc = "done", !.calls = Append(@, << "insertEvent", settled >>),
                          !.res = [status |-> 400, body |-> [error |-> "insertEvent failed"]]]
           ELSE bk' = [bk EXCEPT !.pc = "email", !.calls = Append(@, << "insertEvent", settled >>),
                          !.calendar = [ok |-> TRUE, eventId |-> 1, htmlLink |-> "event"]]
    /\ UNCHANGED << intents, message, lang, result, source, files, reqs, user_prompts, gem >>

\* Lines 250-270: insertEvent
InsertEvent ==
    /\ bk # NoCall
    /\ bk.pc = "calendar"
    /\ \E settled \in { "resolved", "rejected" } :
           IF settled = "rejected"
           THEN bk' = [bk EXCEPT !.pc = "email", !.calls = Append(@, << "insertEvent", settled >>),
                          !.calendar = [ok |-> FALSE, reason |-> "calendar_error",
                                        error |-> "insertEvent failed"]]
           ELSE bk' = [bk EXCEPT !.pc = "email", !.calls = Append(@, << "insertEvent", settled >>),
                          !.calendar = [ok |-> TRUE, eventId |-> 1, htmlLink |-> "event"]]
    /\ UNCHANGED << intents, message, lang, result, source, files, reqs, user_prompts, gem >>

\* Lines 300-310: the response of a booking
BookingResponse(email) ==
    [status |-> 200,
     body |-> [ok |-> TRUE,
               booking |-> [bk.booking EXCEPT !.external_link = bk.finalExternalLink],
               externalLink |-> bk.finalExternalLink,
               qrUrl |-> bk.qrUrl,
               email |-> email,
               calendar |-> bk.calendar]]

\* Lines 276-310: sendEmail, and the response.  Without a row of the user
\* the read of user.email raises inside the try, before sendEmail is called.
SendEmail ==
    /\ bk # NoCall
    /\ bk.pc = "email"
    /\ IF bk.user = Undefined
       THEN \A email \in { [ok |-> FALSE, error |-> "TypeError"] } :
                bk' = [bk EXCEPT !.pc = "done", !.email = email,
                          !.res = BookingResponse(email)]
       ELSE \E settled \in { "resolved", "rejected" } :
                \A email \in { IF settled = "rejected"
                                THEN [ok |-> FALSE, error |-> "sendEmail failed"]
                                ELSE [ok |-> TRUE, error |-> Null] } :
                    bk' = [bk EXCEPT !.pc = "done", !.email = email,
                              !.calls = Append(@, << "sendEmail", settled >>),
                              !.res = BookingResponse(email)]
    /\ UNCHANGED << intents, message, lang, result, source, files, reqs, user_prompts, gem >>

NextBooking ==
    \/ ParseBody
    \/ InsertBooking
    \/ UpdateLink
    \/ GenerateQr
    \/ SelectUser
    \/ SelectToken
    \/ InsertEvent
    \/ SendEmail

SpecBooking == InitBooking /\ [][NextBooking]_vars

(***************************************************************************)
(* Properties of matchIntent                                               *)
(***************************************************************************)
Called == result # NoCall

\* An array of rule objects
IsRuleList(v) == v.t = "array" /\ \A i \in DOMAIN v.a : v.a[i].t = "object"

\* The comparison subject of the call
Subject == ComparisonSubject(message, lang)

RuleName(it) == Or(Or(Get(it, "intent"), Get(it, "name")), Get(it, "id"))

\* The (rule, pattern) positions the scan visits, each with its normalized
\* pattern: the patterns of the named rules
Candidates ==
    UNION { LET ps == extractPatterns(intents.a[i])
            IN  { [r |-> i, p |-> j, k |-> norm(Str(ps[j]))] : j \in DOMAIN ps } :
            i \in { i \in DOMAIN intents.a : Truthy(RuleName(intents.a[i])) } }

\* The candidates whose pattern whole-phrase matches m
MatchingOf(m) == { c \in Candidates : c.k # << >> /\ matchesWhole(m, c.k) }

LongestOf(M) == { c \in M : \A d \in M : Len(d.k) <= Len(c.k) }

Matching == MatchingOf(Subject)

Longest == LongestOf(Matching)

Before(c, d) == c.r < d.r \/ (c.r = d.r /\ c.p <= d.p)

\* C1: whenever matchIntent returns a result, the returned intent is that of
\* a rule with a pattern that whole-phrase matches the comparison subject,
\* and no matching pattern of a named rule is longer than that pattern.
C1_LongestPatternWins ==
    (Called /\ IsRuleList(intents) /\ result.t = "object") =>
        \A L \in { Longest } :
            \E c \in L : RuleName(intents.a[c.r]) = result.f.intent

C1_Witness ==
    /\ intents = Arr(<< ruleA, ruleB >>)
    /\ message = Str(<< "I"," ","w","a","n","t"," ","t","o"," ","b","o","o","k"," ","h","o","t","e","l"," ","n","o","w" >>)
    /\ lang = Undefined
    /\ result.t = "object"
    /\ result.f.intent = Str(<< "B" >>)
    /\ Cardinality(Matching) = 2

\* A pattern of word characters and inner spaces
WordOnly(k) ==
    /\ k # << >>
    /\ IsWordChar(k[1]) /\ IsWordChar(k[Len(k)])
    /\ \A i \in DOMAIN k : IsWordChar(k[i]) \/ k[i] = " "

\* An occurrence of k in m neither preceded nor followed by a word character
IsolatedOccurrence(m, k) ==
    \E i \in 0 .. (Len(m) - Len(k)) :
        /\ SubSeq(m, i + 1, i + Len(k)) = k
        /\ (i = 0 \/ ~IsWordChar(m[i]))
        /\ (i + Len(k) = Len(m) \/ ~IsWordChar(m[i + Len(k) + 1]))

\* C2: a pattern of word characters (and inner spaces) counts as matching
\* iff the comparison subject holds an occurrence of it that is neither
\* preceded nor followed by a word character; with only such patterns,
\* matchIntent returns a result iff some pattern has such an occurrence.
C2_WholeWordMatch ==
    (Called /\ IsRuleList(intents) /\ Truthy(message)) =>
        \A m \in { Subject } : \A C \in { Candidates } :
            /\ \A c \in C :
                   WordOnly(c.k) =>
                       (matchesWhole(m, c.k) <=> IsolatedOccurrence(m, c.k))
            /\ (\A c \in C : c.k = << >> \/ WordOnly(c.k)) =>
                   (result.t = "object" <=>
                        \E c \in C : IsolatedOccurrence(m, c.k))

C2_Witness ==
    /\ intents = Arr(<< greet, bookHotel, bookTaxi >>)
    /\ message = Str(<< "t","h","e","r","e"," ","a","r","e"," ","m","a","n","y"," ","t","h","i","n","g","s"," ","t","o"," ","d","o" >>)
    /\ lang = Undefined
    /\ includes(Subject, << "h","i" >>)
    /\ result = Null

\* C3: among the longest matching patterns the one met first in the scan
\* (rules in order, patterns in order within a rule) decides the intent and
\* the response; a later rule, also one with the same intent id, never
\* replaces an earlier equally long match.
C3_FirstEncounteredWins ==
    (Called /\ IsRuleList(intents) /\ result.t = "object") =>
        \A L \in { Longest } :
            \E c \in L :
                /\ \A d \in L : Before(c, d)
                /\ result.f.intent = RuleName(intents.a[c.r])
                /\ result.f.response = pickResponse(intents.a[c.r], lang)

C3_Witness ==
    /\ intents = Arr(<< tie1, tie2, tie3 >>)
    /\ message = Str(<< "h","i" >>)
    /\ Cardinality(Longest) = 2
    /\ result.t = "object"
    /\ result.f.intent = Str(<< "y" >>)

\* C4: matchIntent returns null iff no pattern of a named rule whole-phrase
\* matches the comparison subject; a match of a rule without response text
\* is still an object, whose response is the empty string.
C4_NullIffNoMatch ==
    (Called /\ IsRuleList(intents)) =>
        \A M \in { Matching } :
            /\ (result = Null <=> M = {})
            /\ (M # {} =>
                   /\ result.t = "object"
                   /\ DOMAIN result.f = {"intent", "response"}
                   /\ result.f.response.t = "string")

C4_Witness ==
    /\ intents = Arr(<< noName, emptyName, noPatterns, aliased >>)
    /\ message = Str(<< "h","o","t","e","l" >>)
    /\ result.t = "object"
    /\ result.f.response = Str(<< >>)

\* Language hints that resolve to French, and those that resolve to English
FrenchHints ==
    { Str(FR), Str(<< " ","F","R","-","c","a" >>), Str(<< "f","r","e","n","c","h" >>) }
EnglishHints == Langs \ FrenchHints

\* The first of the longest matching candidates in scan order
Winner(L) == CHOOSE c \in L : \A d \in L : Before(c, d)

\* The response columns of a rule, as text ("" when absent)
FrenchText(it) ==
    String(Or(Or(Or(Get(it, "response_fr"), Get(it, "reponse_fr")), Get(it, "fr")),
              Str(<< >>)))
DefaultText(it) ==
    String(Or(Or(Or(Or(Get(it, "response_en"), Get(it, "response")), Get(it, "reply")),
                 Get(it, "text")), Str(<< >>)))

NonBlank(txt) == \E i \in DOMAIN txt : txt[i] \notin WhiteSpace

\* C5: the response of the winning rule is its French response when the
\* language resolves to French and that response is not blank; otherwise it
\* is the English/default response, which is the empty string when the rule
\* has none (so a rule with one default column answers it in both languages).
C5_ResponseByLanguage ==
    (Called /\ IsRuleList(intents) /\ result.t = "object") =>
        \A L \in { Longest } :
            LET it == intents.a[Winner(L).r]
            IN  result.f.response =
                    IF lang \in FrenchHints /\ NonBlank(FrenchText(it))
                    THEN Str(FrenchText(it))
                    ELSE Str(DefaultText(it))

C5_Witness ==
    /\ intents = Arr(<< greet, bookHotel, bookTaxi >>)
    /\ message = Str(<< "h","i" >>)
    /\ lang = Str(<< " ","F","R","-","c","a" >>)
    /\ result.t = "object"
    /\ result.f.response = Str(<< "B","o","n","j","o","u","r","!" >>)

\* The signal vocabularies of the rewriter
VerbSignals == { << "r","e","s","e","r","v","e","r" >>, << "r",eAcute,"s","e","r","v","e","r" >>, << "r","e","s","e","r","v","a","t","i","o","n" >>, << "r",eAcute,"s","e","r","v","a","t","i","o","n" >>, << "b","o","o","k" >>, << "b","o","o","k","i","n","g" >> }
HotelSignals == { << "h","o","t","e","l" >>, << "h",oCirc,"t","e","l" >>, << "h","e","b","e","r","g","e","m","e","n","t" >>, << "h",eAcute,"b","e","r","g","e","m","e","n","t" >>, << "l","o","g","e","m","e","n","t" >> }
TaxiSignals == { << "t","a","x","i" >>, << "c","h","a","u","f","f","e","u","r" >>, << "t","r","a","n","s","p","o","r","t" >>, << "v","o","i","t","u","r","e" >> }

\* The utterance contains one of the signals, case and accents apart
HasSignal(msg, signals) ==
    \A m \in { norm(msg) } : \E k \in signals : includes(m, norm(Str(k)))

\* Both are no result, or both are results with the same intent
SameIntent(a, b) ==
    \/ a = Null /\ b = Null
    \/ a.t = "object" /\ b.t = "object" /\ a.f.intent = b.f.intent

\* C6: in French mode an utterance with a reservation-verb signal and a
\* hotel signal resolves to the intent the English utterance "book hotel"
\* resolves to on the same rule set; with a verb signal, a taxi signal and
\* no hotel signal it resolves to the intent of "book taxi".
C6_FrenchBridging ==
    (Called /\ IsRuleList(intents) /\ lang \in FrenchHints
        /\ HasSignal(message, VerbSignals)) =>
        /\ HasSignal(message, HotelSignals) =>
               SameIntent(result, matchIntent(intents, Str(BOOK_HOTEL), Str(EN)))
        /\ (HasSignal(message, TaxiSignals) /\ ~HasSignal(message, HotelSignals)) =>
               SameIntent(result, matchIntent(intents, Str(BOOK_TAXI), Str(EN)))

C6_Witness ==
    /\ intents = Arr(<< greet, bookHotel, bookTaxi >>)
    /\ message = Str(<< "j","e"," ","v","e","u","x"," ","r",eAcute,"s","e","r","v","e","r"," ","u","n"," ","h",oCirc,"t","e","l" >>)
    /\ lang = Str(FR)
    /\ result.t = "object"
    /\ result.f.intent = Str(<< "b","o","o","k","_","h","o","t","e","l" >>)

\* C7: for a language hint that does not resolve to French the comparison
\* subject is the normalized raw utterance, and a result comes from a
\* pattern contained in the normalized raw utterance.
C7_NoRewriteInEnglish ==
    (Called /\ IsRuleList(intents) /\ lang \in EnglishHints /\ Truthy(message)) =>
        \A m \in { norm(message) } :
            /\ Subject = m
            /\ result.t \in {"null", "object"}
            /\ result.t = "object" =>
                   \E c \in Candidates :
                       /\ RuleName(intents.a[c.r]) = result.f.intent
                       /\ c.k # << >>
                       /\ includes(m, c.k)

C7_Witness ==
    /\ intents = Arr(<< ruleB, ruleA >>)
    /\ message = Str(<< "r",eAcute,"s","e","r","v","e","r"," ","u","n"," ","h",oCirc,"t","e","l" >>)
    /\ lang = Str(<< "d","e" >>)
    /\ Subject = << "r","e","s","e","r","v","e","r"," ","u","n"," ","h","o","t","e","l" >>
    /\ result.t = "object"
    /\ result.f.intent = Str(<< "A" >>)

\* C8: in French mode an utterance whose normalized form is "hotel" or
\* "un hotel" is matched as "book hotel", "taxi" or "un taxi" as "book taxi";
\* with no verb+domain signal and no bare noun the utterance is matched
\* unchanged, giving the intent English-mode matching gives.
C8_BareNounAndPassThrough ==
    (Called /\ IsRuleList(intents) /\ lang \in FrenchHints /\ Truthy(message)) =>
        \A m \in { norm(message) } :
            /\ m \in { << "h","o","t","e","l" >>, << "u","n"," ","h","o","t","e","l" >> } =>
                   /\ Subject = BOOK_HOTEL
                   /\ result = matchIntent(intents, Str(BOOK_HOTEL), lang)
            /\ m \in { << "t","a","x","i" >>, << "u","n"," ","t","a","x","i" >> } =>
                   /\ Subject = BOOK_TAXI
                   /\ result = matchIntent(intents, Str(BOOK_TAXI), lang)
            /\ (/\ ~(HasSignal(message, VerbSignals)
                       /\ HasSignal(message, HotelSignals \cup TaxiSignals))
                /\ m \notin { << "h","o","t","e","l" >>, << "u","n"," ","h","o","t","e","l" >>, << "t","a","x","i" >>, << "u","n"," ","t","a","x","i" >> }) =>
                   /\ Subject = m
                   /\ SameIntent(result, matchIntent(intents, message, Str(EN)))

C8_Witness ==
    /\ intents = Arr(<< greet, bookHotel, bookTaxi >>)
    /\ message = Str(<< "U","n"," ","H",oCirc,"t","e","l" >>)
    /\ lang = Str(FR)
    /\ result.t = "object"
    /\ result.f.intent = Str(<< "b","o","o","k","_","h","o","t","e","l" >>)

\* C9: matchIntent raises no exception, whatever the rule-set value, the
\* utterance and the language.
C9_NeverThrows == Called => result.t # "throw"

\* A string of white space only
WhiteSpaceOnly(v) ==
    v.t = "string" /\ v.s # << >> /\ \A i \in DOMAIN v.s : v.s[i] \in WhiteSpace

\* C10: for an empty or absent utterance matchIntent returns null whatever
\* the rule-set value and the language, before any rule is read; for an
\* utterance of white space only it returns null on every rule list.
C10_EmptyUtterance ==
    Called =>
        /\ ~Truthy(message) => result = Null
        /\ (WhiteSpaceOnly(message) /\ IsRuleList(intents)) => result = Null

C10_Witness ==
    /\ intents = Arr(<< Null >>)
    /\ message = Str(<< >>)
    /\ result = Null

(***************************************************************************)
(* Normalisation and language resolution                                   *)
(***************************************************************************)
\* C12: normalization is idempotent, its output has no leading or trailing
\* white space, and it equals stripping the diacritics, then lower-casing,
\* then trimming.
C12_NormIdempotent ==
    Called =>
        \A m \in { norm(message) } :
            /\ norm(Str(m)) = m
            /\ m # << >> => (m[1] \notin WhiteSpace /\ m[Len(m)] \notin WhiteSpace)
            /\ m = trim(toLowerCase(stripAccents(message)))

\* The text of a language hint: "" for an absent or falsy hint
HintText(v) == IF Truthy(v) THEN String(v) ELSE << >>

\* The lower-cased, trimmed hint starts with "fr"
StartsWithFr(v) ==
    \A low \in { trim(toLowerCase(HintText(v))) } :
        Len(low) >= 2 /\ low[1] = "f" /\ low[2] = "r"

\* C14: the language canonicalizer returns "fr" exactly when the lower-cased,
\* trimmed hint starts with "fr" and "en" otherwise, for strings, absent,
\* empty and non-string hints alike; the matcher answers accordingly.
C14_LanguageTwoValued ==
    Called =>
        /\ normalizeLang(lang) \in { FR, EN }
        /\ normalizeLang(lang) = FR <=> StartsWithFr(lang)
        /\ StartsWithFr(lang) <=> lang \in FrenchHints
        /\ (IsRuleList(intents) /\ Truthy(message)) =>
               result = matchIntent(intents, message,
                                    IF StartsWithFr(lang) THEN Str(FR) ELSE Str(EN))

C14_Witness ==
    /\ intents = Arr(<< greet, bookHotel, bookTaxi >>)
    /\ message = Str(<< "h","i" >>)
    /\ lang = Str(<< "f","r","e","n","c","h" >>)
    /\ result.t = "object"
    /\ result.f.response = Str(<< "B","o","n","j","o","u","r","!" >>)

(***************************************************************************)
(* Variants by case, diacritics and surrounding white space                *)
(***************************************************************************)
UpperChar(c) ==
    IF c \in LowerAlpha
    THEN UpperSeq[CHOOSE i \in DOMAIN LowerSeq : LowerSeq[i] = c]
    ELSE IF c = eAcute THEN EAcute
    ELSE IF c = oCirc THEN OCirc
    ELSE c

\* The same text in upper case
InUpperCase(s) == [i \in DOMAIN s |-> UpperChar(s[i])]

\* The same text with accents on its letters e and o
WithAccents(s) ==
    [i \in DOMAIN s |-> IF s[i] = "e" THEN eAcute ELSE IF s[i] = "o" THEN oCirc ELSE s[i]]

\* The same text between white space
Padded(s) == << " " >> \o s \o << TAB >>

\* The same text followed by white space that carries a diacritic
MarkPadded(s) == s \o << " ", CombAcute >>

\* Variants that differ in case, diacritics or the white space at the ends,
\* no diacritic standing next to that white space
PlainVariants(s) == { InUpperCase(s), WithAccents(s), Padded(s) }

Variants(s) == PlainVariants(s) \cup { MarkPadded(s) }

PatternFields == { "patterns", "keywords", "phrases" }

\* The rule list with every pattern column replaced by its variant
WithPatternColumns(rules, Variant(_)) ==
    Arr([i \in DOMAIN rules |->
            Obj([n \in DOMAIN rules[i].f |->
                    IF n \in PatternFields /\ rules[i].f[n].t = "string"
                    THEN Str(Variant(rules[i].f[n].s))
                    ELSE rules[i].f[n]])])

\* Matching ignores case, diacritics and surrounding white space, when no
\* diacritic stands next to that white space
PlainVariantsMatchAlike ==
    (Called /\ IsRuleList(intents) /\ message.t = "string") =>
        /\ \A v \in PlainVariants(message.s) :
               SameIntent(result, matchIntent(intents, Str(v), lang))
        /\ SameIntent(result, matchIntent(WithPatternColumns(intents.a, InUpperCase),
                                          message, lang))
        /\ SameIntent(result, matchIntent(WithPatternColumns(intents.a, WithAccents),
                                          message, lang))
        /\ SameIntent(result, matchIntent(WithPatternColumns(intents.a, Padded),
                                          message, lang))

\* C13: replacing the utterance, or the stored patterns, by a variant that
\* differs only in letter case, diacritics or leading/trailing white space
\* never changes the intent matchIntent returns.
C13_VariantsMatchAlike ==
    (Called /\ IsRuleList(intents) /\ message.t = "string") =>
        /\ \A v \in Variants(message.s) :
               SameIntent(result, matchIntent(intents, Str(v), lang))
        /\ \A R \in { WithPatternColumns(intents.a, InUpperCase),
                       WithPatternColumns(intents.a, WithAccents),
                       WithPatternColumns(intents.a, Padded),
                       WithPatternColumns(intents.a, MarkPadded) } :
               SameIntent(result, matchIntent(R, message, lang))

(***************************************************************************)
(* Field aliases and unusable rules                                        *)
(***************************************************************************)
\* The text of the first of the named columns that is not empty, else ""
RECURSIVE FirstNonEmpty(_, _)
FirstNonEmpty(it, names) ==
    IF names = << >> THEN << >>
    ELSE IF Head(names) \in DOMAIN it.f /\ it.f[Head(names)] # Str(<< >>)
    THEN it.f[Head(names)].s
    ELSE FirstNonEmpty(it, Tail(names))

ExpectedName(it) == FirstNonEmpty(it, << "intent", "name", "id" >>)

\* The pieces of s between the '|' characters
Pieces(s) ==
    { SubSeq(s, a, b) : a \in 1 .. Len(s) + 1, b \in 0 .. Len(s) } \cap
    { SubSeq(s, a, b) : << a, b >> \in
        { ab \in (1 .. Len(s) + 1) \X (0 .. Len(s)) :
            /\ ab[1] <= ab[2] + 1
            /\ \A i \in ab[1] .. ab[2] : s[i] # "|"
            /\ (ab[1] = 1 \/ s[ab[1] - 1] = "|")
            /\ (ab[2] = Len(s) \/ s[ab[2] + 1] = "|") } }

\* The trigger phrases of a rule: the pieces of its first non-empty pattern
\* column, trimmed, the empty ones dropped
ExpectedPhrases(it) ==
    { trim(p) : p \in Pieces(FirstNonEmpty(it, << "patterns", "keywords", "phrases" >>)) }
        \ { << >> }

\* C18: the intent name is the first non-empty of the columns intent, name,
\* id and the trigger phrases are those of the first non-empty of patterns,
\* keywords, phrases, split on '|', trimmed, empty phrases dropped; the
\* result of matchIntent comes from these names and phrases.
C18_FieldAliases ==
    (Called /\ IsRuleList(intents)) =>
        /\ \A i \in DOMAIN intents.a :
               \A ps \in { extractPatterns(intents.a[i]) } :
                   /\ { ps[j] : j \in DOMAIN ps } = ExpectedPhrases(intents.a[i])
                   /\ String(RuleName(intents.a[i])) = ExpectedName(intents.a[i])
                          \/ (ExpectedName(intents.a[i]) = << >>
                                 /\ ~Truthy(RuleName(intents.a[i])))
        /\ \A m \in { Subject } :
               /\ result.t \in { "null", "object" }
               /\ result.t = "object" <=>
                      \E i \in DOMAIN intents.a :
                          /\ ExpectedName(intents.a[i]) # << >>
                          /\ \E p \in ExpectedPhrases(intents.a[i]) :
                                 norm(Str(p)) # << >> /\ matchesWhole(m, norm(Str(p)))
               /\ result.t = "object" =>
                      \E i \in DOMAIN intents.a :
                          /\ result.f.intent = Str(ExpectedName(intents.a[i]))
                          /\ ExpectedName(intents.a[i]) # << >>
                          /\ \E p \in ExpectedPhrases(intents.a[i]) :
                                 matchesWhole(m, norm(Str(p)))

C18_Witness ==
    /\ intents = Arr(<< multiAlias, multiAlias2 >>)
    /\ message = Str(<< "h","i" >>)
    /\ result.t = "object"
    /\ result.f.intent = Str(<< "n","1" >>)

\* A rule with an intent name and at least one trigger phrase
Usable(it) == ExpectedName(it) # << >> /\ ExpectedPhrases(it) # { }

\* C19: matchIntent returns on a rule list what it returns on the list
\* without the rules that lack an intent name or a trigger phrase, and the
\* intent it returns is never empty.
C19_UnusableRulesIgnored ==
    (Called /\ IsRuleList(intents)) =>
        /\ result = matchIntent(Arr(SelectSeq(intents.a, Usable)), message, lang)
        /\ result.t = "object" =>
               (result.f.intent.t = "string" /\ result.f.intent.s # << >>)

C19_Witness ==
    /\ intents = Arr(<< noName, emptyName, noPatterns, aliased >>)
    /\ message = Str(<< "h","i" >>)
    /\ result = Null

(***************************************************************************)
(* Properties of loadIntents                                               *)
(***************************************************************************)
Loaded == intents.t = "array"

\* The rows the author wrote: the first is the header, the others the data
RowLines(src) == SelectSeq(src.lines, LAMBDA l : l.kind = "row")
DataRows(src) == IF RowLines(src) = << >> THEN << >> ELSE Tail(RowLines(src))

\* The columns of Header3
ColumnKeys == << "intent", "patterns", "response" >>

QuotesOnly(t) == \A i \in DOMAIN t : t[i] = QUOTE

\* C15: a field text written between double quotes with its quotes doubled
\* is read back exactly, and the other columns of its row are read as
\* written.
C15_QuoteRoundTrip ==
    (Loaded /\ source # Unread) =>
        \A rows \in { DataRows(source) } :
            /\ Len(intents.a) = Len(rows)
            /\ \A r \in DOMAIN rows :
                   (\E k \in DOMAIN rows[r].cells : rows[r].cells[k].quoted) =>
                       \A k \in DOMAIN rows[r].cells :
                           Get(intents.a[r], ColumnKeys[k]) = Str(rows[r].cells[k].text)

\* The round trip holds for the quoted texts that are not made of quotes
\* only and carry no white space at their ends
QuoteRoundTripOfPlainTexts ==
    (Loaded /\ source # Unread) =>
        \A rows \in { DataRows(source) } :
            \A r \in DOMAIN rows :
                \A k \in DOMAIN rows[r].cells :
                    \A c \in { rows[r].cells[k] } :
                        (c.quoted /\ ~QuotesOnly(c.text) /\ trim(c.text) = c.text) =>
                            Get(intents.a[r], ColumnKeys[k]) = Str(c.text)

\* C16 as stated: the loader drops the data rows whose intent-name field is
\* empty, so it returns as many rules as there are data rows with a
\* non-empty intent name.
C16_NamelessRowsDiscarded ==
    (Loaded /\ source # Unread) =>
        \A rows \in { DataRows(source) } :
            Len(intents.a) =
                Cardinality({ r \in DOMAIN rows : rows[r].cells[1].text # << >> })

Named(it) == Truthy(RuleName(it))

\* C16 as amended: the loader returns one rule per data row, in order; a
\* row whose intent-name field is read as empty yields a rule without a
\* name, which matchIntent passes over: the result is that of the list
\* without the nameless rules and never carries an empty intent.
C16_NamelessRowsKeptButSkipped ==
    (Loaded /\ source # Unread) =>
        \A rows \in { DataRows(source) } :
            /\ Len(intents.a) = Len(rows)
            /\ \A r \in DOMAIN rows :
                   /\ intents.a[r].t = "object"
                   /\ rows[r].cells[1] = Bare(<< >>) => ~Named(intents.a[r])
                   /\ Get(intents.a[r], "intent") = Str(<< >>) => ~Named(intents.a[r])
            /\ Called =>
                   /\ result = matchIntent(Arr(SelectSeq(intents.a, Named)), message, lang)
                   /\ result.t \in { "null", "object" }
                   /\ result.t = "object" =>
                          \E r \in DOMAIN rows :
                              /\ Named(intents.a[r])
                              /\ result.f.intent = Get(intents.a[r], "intent")

C16_Witness ==
    /\ Loaded
    /\ source.lines = << Header3, namelessRow, greetRow >>
    /\ Len(intents.a) = 2
    /\ message = Str(<< "h","i" >>)
    /\ result.t = "object"
    /\ result.f.intent = Str(<< "g","r","e","e","t" >>)

\* The first candidate that exists, in candidate order
FirstPresent ==
    CHOOSE p \in Paths :
        /\ files[p] # Absent
        /\ \A i, j \in DOMAIN candidates :
               (candidates[i] = p /\ j < i) => files[candidates[j]] = Absent

Matched(r) ==
    \/ reqs[r].pc \in { "select", "gemini" }
    \/ reqs[r].pc = "done" /\ reqs[r].res.status # 400

\* C20: no step of a chat request changes the rule set, and whatever the
\* interleaving of the requests, the match each of them holds is the one
\* matchIntent gives on the loaded rule set for its own message and language.
C20_RuleSetReadOnly ==
    /\ [][intents' = intents]_vars
    /\ [](\A r \in DOMAIN reqs :
              Matched(r) =>
                  reqs[r].m = matchIntent(intents, reqs[r].message,
                                          Str(normalizeLang(reqs[r].lang))))

C20_Witness ==
    /\ DOMAIN reqs = Requests
    /\ reqs[1].pc = "gemini"
    /\ reqs[2].pc = "done"
    /\ reqs[2].m.t = "object"
    /\ reqs[1].userId = reqs[2].userId

(***************************************************************************)
(* The rewrite against the rules, and patterns against themselves          *)
(***************************************************************************)
\* C24: the rewrite only adds matches: an utterance that matches some rule
\* in English mode also matches some rule in French mode.
C24_RewriteAdditive ==
    (Called /\ IsRuleList(intents) /\ lang \in FrenchHints) =>
        (matchIntent(intents, message, Str(EN)).t = "object" => result.t = "object")

\* The same, for the utterances the rewrite leaves alone
RewriteAdditiveWhenNotRewritten ==
    (Called /\ IsRuleList(intents) /\ lang \in FrenchHints /\ Truthy(message)
        /\ Subject = norm(message)) =>
        (matchIntent(intents, message, Str(EN)).t = "object" => result.t = "object")

\* The trigger phrases of the named rules that are not empty once normalised
NamedPatterns ==
    UNION { { ps[j] : j \in { j \in DOMAIN ps : norm(Str(ps[j])) # << >> } } :
              ps \in { extractPatterns(intents.a[i]) :
                         i \in { i \in DOMAIN intents.a : Truthy(RuleName(intents.a[i])) } } }

\* C25: the utterance that is a trigger phrase of a named rule gets a
\* result in English mode.
C25_PatternMatchesItself ==
    (Called /\ IsRuleList(intents) /\ lang \in EnglishHints /\ message.t = "string"
        /\ message.s \in NamedPatterns) =>
        result.t = "object"

\* The same, for the phrases that begin and end with a word character
WordPatternMatchesItself ==
    (Called /\ IsRuleList(intents) /\ lang \in EnglishHints /\ message.t = "string"
        /\ message.s \in NamedPatterns) =>
        \A m \in { norm(message) } :
            (IsWordChar(m[1]) /\ IsWordChar(m[Len(m)])) => result.t = "object"

\* C26: in French mode a reservation verb with both a hotel and a taxi
\* signal is rewritten to "book hotel"; a verb with a hotel or taxi signal
\* decides the rewrite, and the bare nouns decide it only without one.
C26_RewriteOrder ==
    (Called /\ IsRuleList(intents) /\ lang \in FrenchHints /\ Truthy(message)) =>
        \A verb \in { HasSignal(message, VerbSignals) } :
            /\ (verb /\ HasSignal(message, HotelSignals) /\ HasSignal(message, TaxiSignals)) =>
                   /\ Subject = BOOK_HOTEL
                   /\ result = matchIntent(intents, Str(BOOK_HOTEL), lang)
            /\ (verb /\ HasSignal(message, HotelSignals)) => Subject = BOOK_HOTEL
            /\ (verb /\ HasSignal(message, TaxiSignals) /\ ~HasSignal(message, HotelSignals)) =>
                   Subject = BOOK_TAXI
            /\ (Subject \in { BOOK_HOTEL, BOOK_TAXI }
                    /\ ~(verb /\ HasSignal(message, HotelSignals \cup TaxiSignals))) =>
                   norm(message) \in bareHotel \cup bareTaxi

C26_Witness ==
    /\ intents = Arr(<< greet, bookHotel, bookTaxi >>)
    /\ message = Str(<< "r",eAcute,"s","e","r","v","a","t","i","o","n"," ","t","a","x","i"," ","h",oCirc,"t","e","l" >>)
    /\ lang = Str(FR)
    /\ result.t = "object"
    /\ result.f.intent = Str(<< "b","o","o","k","_","h","o","t","e","l" >>)

(***************************************************************************)
(* Properties of geminiReply                                               *)
(***************************************************************************)
GeminiDone == gem # NoCall /\ gem.out # NoCall

\* The model produced a text that is not blank
Answers(o) ==
    /\ o.t = "text"
    /\ o.v.t = "string"
    /\ \E i \in DOMAIN o.v.s : o.v.s[i] \notin WhiteSpace

\* The errors of the model that say the model is not there
NotFoundErrors ==
    { ErrorOutcome(Obj([message |-> Str(<< "4","0","4" >>)])),
      ErrorOutcome(Obj([message |-> Str(<< "q","u","o","t","a"," ","o","n"," ","m","o","d","e","l","s","/","x" >>)])),
      ErrorOutcome(Obj([message |-> Str(<< "M","o","d","e","l"," ","i","s"," ","N","O","T"," ","y","e","t"," ","s","u","p","p","o","r","t","e","d" >>)])) }

\* The errors of the model that say access failed
AccessErrors ==
    { ErrorOutcome(Obj([message |-> Str(<< "A","P","I"," ","k","e","y"," ","i","n","v","a","l","i","d" >>)])),
      ErrorOutcome(Str(<< "N","e","t","w","o","r","k"," ","d","o","w","n" >>)) }

MovesOn(o) == (o.t = "text" /\ ~Answers(o)) \/ o \in NotFoundErrors

\* C29: geminiReply calls the candidates in list order, moves on after a
\* blank reply or a model-not-found error (also when the error reads as a
\* hard failure too), stops at the first answer or other error, and always
\* returns a non-empty string: the answer trimmed, an unavailability
\* message, or the final message when the candidates are exhausted.
C29_GeminiReplyOrder ==
    GeminiDone =>
        \A models \in { (IF Truthy(gem.world.envModel) /\ trim(gem.world.envModel.s) # << >>
                          THEN << trim(gem.world.envModel.s) >> ELSE << >>) \o FixedModels } :
        \A fr \in { IF gem.lang = Str(FR) THEN FR ELSE EN } :
        \A n \in { Len(gem.out.calls) } :
            /\ gem.out.ret.t = "string"
            /\ gem.out.ret.s # << >>
            /\ gem.out.calls = SubSeq(models, 1, n)
            /\ \A i \in 1 .. n - 1 : MovesOn(gem.world.outcome[models[i]])
            /\ ~Truthy(gem.world.apiKey) =>
                   n = 0 /\ gem.out.ret = Str(GEMINI_NOT_CONFIGURED)
            /\ Truthy(gem.world.apiKey) =>
                   /\ n >= 1
                   /\ \A o \in { gem.world.outcome[models[n]] } :
                          /\ Answers(o) => gem.out.ret = Str(trim(o.v.s))
                          /\ MovesOn(o) =>
                                 n = Len(models) /\ gem.out.ret = Str(ExhaustedText(fr))
                          /\ (o.t = "error" /\ o \notin NotFoundErrors) =>
                                 gem.out.ret = Str(IF o \in AccessErrors
                                                   THEN HardFailureText(fr)
                                                   ELSE UnexpectedErrorText(fr))

C29_Witness ==
    /\ GeminiDone
    /\ gem.world.envModel = Str(<< " ","m","y"," " >>)
    /\ gem.out.calls = << << "m","y" >>,
                          FixedModels[1], FixedModels[2] >>
    /\ gem.world.outcome[FixedModels[1]] =
           ErrorOutcome(Obj([message |-> Str(<< "q","u","o","t","a"," ","o","n"," ","m","o","d","e","l","s","/","x" >>)]))
    /\ gem.out.ret = Str(<< "o","k" >>)

(***************************************************************************)
(* Properties of the chat endpoint                                         *)
(***************************************************************************)
Did(r, step) == \E i \in DOMAIN reqs[r].did : reqs[r].did[i] = step
Done(r) == reqs[r].pc = "done"

\* The message is absent, empty or white space only
Blank(msg) ==
    \/ msg \in { Undefined, Null, Str(<< >>) }
    \/ msg.t = "string" /\ \A i \in DOMAIN msg.s : msg.s[i] \in WhiteSpace

\* What the matcher gives for the request
MatchOf(r) == matchIntent(intents, reqs[r].message, Str(normalizeLang(reqs[r].lang)))

\* C21: the language model is called for a request exactly when its message
\* is not blank and matchIntent returns null; a request with a match is
\* answered from the match and the language model is not called.
C21_FallbackIffNoMatch ==
    \A r \in DOMAIN reqs :
        \A m \in { IF Blank(reqs[r].message) THEN Null ELSE MatchOf(r) } :
            /\ Did(r, "gemini") => (~Blank(reqs[r].message) /\ m = Null)
            /\ Done(r) =>
                   /\ (~Blank(reqs[r].message) /\ m = Null) => Did(r, "gemini")
                   /\ m # Null =>
                          /\ ~Did(r, "gemini") /\ ~Did(r, "select")
                          /\ reqs[r].res.body.intent = m.f.intent
                          /\ reqs[r].res.body.text = m.f.response

C21_Witness ==
    /\ DOMAIN reqs = Requests
    /\ Done(1) /\ Did(1, "gemini") /\ reqs[1].message = Str(<< "t" >>)
    /\ Done(2) /\ ~Did(2, "gemini") /\ reqs[2].message = Str(<< "h","i" >>)

\* C22: a request with a match is answered with type "trigger" exactly when
\* the intent is book_hotel or book_taxi, otherwise with type "intent", and
\* the answer carries the intent and the response of the match.
C22_TriggerOrIntent ==
    \A r \in DOMAIN reqs :
        (Done(r) /\ ~Blank(reqs[r].message)) =>
            \A m \in { MatchOf(r) } :
                m # Null =>
                    /\ reqs[r].res.status = 200
                    /\ reqs[r].res.body.type =
                           (IF m.f.intent \in { Str(<< "b","o","o","k","_","h","o","t","e","l" >>),
                                                Str(<< "b","o","o","k","_","t","a","x","i" >>) }
                            THEN "trigger" ELSE "intent")
                    /\ reqs[r].res.body.intent = m.f.intent
                    /\ reqs[r].res.body.text = m.f.response

C22_Witness ==
    /\ DOMAIN reqs = Requests
    /\ Done(1) /\ reqs[1].res.status = 200 /\ reqs[1].res.body.type = "trigger"
    /\ reqs[1].res.body.intent = Str(<< "b","o","o","k","_","t","a","x","i" >>)
    /\ Done(2) /\ reqs[2].res.status = 200 /\ reqs[2].res.body.type = "intent"

\* The rows of a user ever inserted, oldest first
StoredOf(user) == RowsOf(user_prompts.stored, user)

Elems(s) == { s[i] : i \in DOMAIN s }

\* C23: once all requests are completed every user has at most ten stored
\* prompts, the most recent ones stored for that user (none that was deleted
\* is newer by created_at than one that is kept, and none is deleted while
\* fewer than ten are kept); and a step deletes rows of a user only as the
\* DELETE of a request of that user.
C23_LastTenPerUser ==
    /\ []((DOMAIN reqs # { } /\ \A r \in DOMAIN reqs : Done(r)) =>
              \A u \in Users :
                  \A mine \in { RowsOf(user_prompts.rows, u) } :
                      /\ Len(mine) <= 10
                      /\ Elems(mine) \subseteq Elems(StoredOf(u))
                      /\ Len(mine) < 10 => Len(mine) = Len(StoredOf(u))
                      /\ \A gone \in Elems(StoredOf(u)) \ Elems(mine) :
                             \A kept \in Elems(mine) :
                                 gone.created_at <= kept.created_at)
    /\ [][DOMAIN reqs # { } =>
              \A u \in Users :
                  ~(Elems(RowsOf(user_prompts.rows, u))
                        \subseteq Elems(RowsOf(user_prompts'.rows, u))) =>
                      \E r \in DOMAIN reqs :
                          /\ reqs[r].userId = u
                          /\ reqs[r].pc = "delete"
                          /\ reqs'[r].pc = "match"]_vars

C23_Witness ==
    /\ DOMAIN reqs = Requests
    /\ Done(1) /\ Done(2)
    /\ reqs[1].userId = reqs[2].userId
    /\ Did(1, "insert") /\ Did(2, "insert")
    /\ Len(user_prompts.stored) = 12
    /\ Len(user_prompts.rows) = 10

\* The error text of the refusal in the language of the request
RequiredText(r) ==
    IF reqs[r].lang = Str(FR) THEN "Le message est requis" ELSE "Message is required"

DidBefore(s, a, b) ==
    \E i, j \in DOMAIN s : i < j /\ s[i] = a /\ s[j] = b

\* C27: a request with a blank message is refused with status 400 and the
\* error text of its language, and nothing happens for it: no row is
\* inserted or deleted, no match, no language model; an accepted request
\* inserts its prompt before it matches, with or without a match.
C27_BlankRefused ==
    /\ [](\A r \in DOMAIN reqs :
              /\ (Blank(reqs[r].message) /\ reqs[r].pc # "received") =>
                     /\ Done(r)
                     /\ reqs[r].res = [status |-> 400, body |-> [error |-> RequiredText(r)]]
                     /\ reqs[r].did = << >>
                     /\ reqs[r].m = Undefined /\ reqs[r].reply = Undefined
              /\ ~Blank(reqs[r].message) =>
                     /\ Done(r) =>
                            (reqs[r].res.status = 200 /\ DidBefore(reqs[r].did, "insert", "match"))
                     /\ Did(r, "match") =>
                            /\ DidBefore(reqs[r].did, "insert", "match")
                            /\ \E i \in DOMAIN user_prompts.stored :
                                   /\ user_prompts.stored[i].user_id = reqs[r].userId
                                   /\ user_prompts.stored[i].prompt = reqs[r].message)
    /\ [][\A r \in DOMAIN reqs :
              (Blank(reqs[r].message) /\ reqs'[r] # reqs[r]) =>
                  UNCHANGED << user_prompts, intents >>]_vars

C27_Witness ==
    /\ DOMAIN reqs = Requests
    /\ reqs[1].message = Str(<< " "," " >>) /\ reqs[1].lang = Str(FR)
    /\ Done(1) /\ reqs[1].res.status = 400
    /\ reqs[2].message = Str(<< "t" >>) /\ Done(2) /\ reqs[2].res.status = 200

\* The candidates of a world in the order of the list
CandidatesOf(world) ==
    (IF Truthy(world.envModel) /\ trim(world.envModel.s) # << >>
     THEN << trim(world.envModel.s) >> ELSE << >>) \o FixedModels

\* The candidate whose non-blank text ends the calls, 0 when there is none:
\* no API key, an error that is no model-not-found error before any answer,
\* or no candidate that answers
AnsweringCandidate(world) ==
    LET models == CandidatesOf(world)
        stops == { i \in DOMAIN models : ~MovesOn(world.outcome[models[i]]) }
        first == CHOOSE i \in stops : \A j \in stops : i <= j
    IN  IF ~Truthy(world.apiKey) \/ stops = { } THEN 0
        ELSE IF Answers(world.outcome[models[first]]) THEN first
        ELSE 0

AskedGemini(r) == Done(r) /\ Did(r, "gemini")

\* C28: the answer has type gemini only with the non-blank text a model
\* produced, and type fallback whenever the language model failed: no API
\* key, no candidate available, a hard failure or an unexpected error.
C28_GeminiOnlyWhenAnswered ==
    \A r \in DOMAIN reqs :
        AskedGemini(r) =>
            \A k \in { AnsweringCandidate(reqs[r].world) } :
                /\ reqs[r].res.body.type \in { "gemini", "fallback" }
                /\ reqs[r].res.body.type = "gemini" =>
                       /\ k > 0
                       /\ reqs[r].res.body.text =
                              Str(trim(reqs[r].world.outcome[CandidatesOf(reqs[r].world)[k]].v.s))
                /\ k = 0 => reqs[r].res.body.type = "fallback"

\* Without an API key the answer has type fallback, and the text of a model
\* that answered is sent with type gemini
C28_NoKeyIsFallback ==
    \A r \in DOMAIN reqs :
        AskedGemini(r) =>
            /\ ~Truthy(reqs[r].world.apiKey) => reqs[r].res.body.type = "fallback"
            /\ AnsweringCandidate(reqs[r].world) > 0 => reqs[r].res.body.type = "gemini"

\* geminiReply returned its message of a hard failure, and the handler sent
\* it with type gemini
C28_FailureSentAsGemini ==
    \E r \in DOMAIN reqs :
        /\ AskedGemini(r)
        /\ AnsweringCandidate(reqs[r].world) = 0
        /\ reqs[r].reply = Str(HardFailureText(reqs[r].L))
        /\ reqs[r].res = Json([type |-> "gemini", text |-> reqs[r].reply])

(***************************************************************************)
(* Properties of POST /api/bookings                                        *)
(***************************************************************************)
Booked == bk # NoCall /\ bk.pc = "done"

Attempted(name) == \E i \in DOMAIN bk.calls : bk.calls[i][1] = name
Rejected(name) == \E i \in DOMAIN bk.calls : bk.calls[i] = << name, "rejected" >>

\* The calendar step failed: the SELECT of the token row or insertEvent
CalendarFailed == bk.tokens = "rejected" \/ Rejected("insertEvent")

\* The email step failed: sendEmail, or the read of the address before it
EmailFailed ==
    Rejected("sendEmail") \/ (bk.calendar # Undefined /\ bk.user = Undefined)

\* C30: once the booking row, its link and the QR image are there, a failed
\* calendar step or a failed email step still gives the response ok: true
\* with the booking, its link and the QR address, and the failure shows in
\* the field of its step only; insertEvent is called only with a token row
\* that holds a refresh token.
C30_NeverBlocksBooking ==
    bk # NoCall =>
        /\ Attempted("insertEvent") => bk.tokens = "refresh_token"
        /\ (Booked /\ bk.qrUrl # NoLink /\ (CalendarFailed \/ EmailFailed)) =>
               /\ bk.res.status = 200
               /\ bk.res.body.ok = TRUE
               /\ bk.res.body.booking =
                      [id |-> bk.booking.id, type |-> bk.body.type,
                       external_link |-> bk.res.body.externalLink]
               /\ bk.res.body.externalLink =
                      (IF bk.body.type = "hotel" THEN [to |-> "booking.com"]
                       ELSE [to |-> "wa.me",
                             lang |-> IF bk.body.lang = Str(FR) THEN FR ELSE EN])
               /\ bk.res.body.qrUrl = bk.qrUrl
               /\ bk.res.body.calendar.ok = (Attempted("insertEvent") /\ ~CalendarFailed)
               /\ CalendarFailed => bk.res.body.calendar.reason = "calendar_error"
               /\ ~CalendarFailed /\ ~Attempted("insertEvent") =>
                      bk.res.body.calendar.reason \in { "not_connected", "missing_refresh_token" }
               /\ bk.res.body.email.ok = ~EmailFailed

C30_Witness ==
    /\ Booked
    /\ Rejected("insertEvent")
    /\ Rejected("sendEmail")
    /\ bk.res.status = 200
    /\ bk.body.type = "taxi"

====
